---- MODULE Spec2Model ----
(***************************************************************************)
(* Phoenix NTFS recovery backend (rust-backend/src).                       *)
(*                                                                         *)
(* The state machines of this module:                                      *)
(*   SpecReader  - FileSystemDiskReader::read_mft_record and its four      *)
(*                 strategies (filesystem_disk_reader.rs)                  *)
(*   SpecRecover - the two per-file recovery pipelines,                    *)
(*                 FileSystemRecoveryEngine::recover_file and              *)
(*                 recover_deleted_file_fs (main_filesystem.rs)            *)
(*   SpecScan    - FileSystemRecoveryEngine::scan_mft with cancel()        *)
(*   SpecRuns    - parse_data_runs on encoded run lists (ntfs_parser.rs)   *)
(*   SpecParse   - parse_mft_record and extract_filename_from_record       *)
(*   SpecPath    - build_full_path and resolve_path_from_mft               *)
(*   SpecCarve   - carve_sector (file_carver.rs)                           *)
(*   SpecVolumeCarve - carve_file_from_volume (main_filesystem.rs)         *)
(*   SpecEmit    - mft_entry_to_recoverable_with_path and the USN entries  *)
(*                 of scan_mft                                             *)
(*   SpecUsn     - the read loop of scan_usn_journal                       *)
(* Record images are abstracted to the place their bytes come from; byte   *)
(* offsets, record numbers and sizes are the program's own numbers.        *)
(***************************************************************************)
EXTENDS Integers, Sequences, FiniteSets, TLC

VARIABLES
    disk,        \* the volume under the reader (fixed during a behaviour)
    reader,      \* FileSystemDiskReader fields
    rpc,         \* position inside read_mft_record: idle, m1..m4, done
    rreq,        \* record_number of the call in progress
    rtrace,      \* strategies attempted in the call so far, with outcomes
    rresult,     \* Result<Vec<u8>, String> of the last finished call
    ioctl_log,   \* last FSCTL_GET_NTFS_FILE_RECORD exchange and its outcome
    pipeline,    \* which recovery pipeline runs: "engine" or "mainfs"
    file,        \* the descriptor handed to the pipeline
    vpc,         \* next strategy of the pipeline, or done
    vtrace,      \* strategies attempted so far, with outcomes
    vresult,     \* the result returned by the pipeline
    dest,        \* the destination file
    scanner,     \* which engine scans: "engine" (scan_mft) or "extended"
    mft,         \* what the scanned MFT holds, record by record
    cancelled,   \* the engine's cancel flag
    spc,         \* position of the scan: idle, loop, finish, done
    scan,        \* locals of the scan in progress
    sresult,     \* what the last scan returned
    scans,       \* scans started on the engine so far
    pin,         \* input of the parser or helper function under study
    pout,        \* what it has produced so far
    pop          \* how far it has got

rvars == <<disk, reader, rpc, rreq, rtrace, rresult, ioctl_log>>

vvars == <<pipeline, file, vpc, vtrace, vresult, dest>>

svars == <<scanner, mft, cancelled, spc, scan, sresult, scans>>

vars == <<disk, reader, rpc, rreq, rtrace, rresult, ioctl_log,
          pipeline, file, vpc, vtrace, vresult, dest,
          scanner, mft, cancelled, spc, scan, sresult, scans,
          pin, pout, pop>>

pvars == <<pin, pout, pop>>

(***************************************************************************)
(* Bounds of the model                                                     *)
(***************************************************************************)
MaxRecordNumber == 9     \* record numbers requested: 0..MaxRecordNumber
VolumeClusters == 6       \* size of the volume in clusters
MaxSeq == 1               \* sequence numbers in returned file references
MaxScanRecords == 3       \* records of the scanned MFT: 0..MaxScanRecords-1
MaxScans == 2             \* scans started on one engine
\* the limits of scan_mft, scaled down from 100_000, 100_000 and 200_000
MaxConsecutiveFailures == 2
MaxDeleted == 2
MaxTotal == 3
MaxRuns == 2              \* data runs in one encoded run list
MaxAttrs == 3             \* attributes listed in one record image
MaxDirs == 3              \* directory records besides the root
MaxDepth == 4             \* depth limit of build_full_path (100)
MaxPositions == 2         \* candidate positions in a carved buffer
MaxMatches == 2           \* signatures that match at one position
MaxScanChunks == 2        \* chunks read by a carving scan (8 GB in 4 MB chunks)
MaxCandidates == 3        \* max_candidates of a carving scan (50)
MaxHits == 2              \* header matches in one chunk
MaxUsn == 4               \* the greatest cursor of the USN journal
MaxBatch == 2             \* USN records in one response
UsnRecordCap == 3         \* the cap on USN records read (10,000,000)

(***************************************************************************)
(* Program constants                                                       *)
(***************************************************************************)
MFT_RECORD_SIZE == 1024
DEFAULT_CLUSTER_SIZE == 4096
IOCTL_HEADER_SIZE == 12

Min(a, b) == IF a < b THEN a ELSE b

RECURSIVE SumCounts(_)
SumCounts(s) == IF s = <<>> THEN 0 ELSE Head(s).cluster_count + SumCounts(Tail(s))

(***************************************************************************)
(* Results.  An image names where the bytes of a buffer come from:         *)
(*   src = "mftfile": record `at` read through the $MFT file handle        *)
(*   src = "ioctl"  : record `at` as returned by the MFT-record ioctl      *)
(*   src = "volume" : bytes read from the volume at byte offset `at`       *)
(***************************************************************************)
NoImage == [src |-> "none", at |-> 0, len |-> 0]
Ok(img) == [ok |-> TRUE, err |-> "", img |-> img]
Err(e) == [ok |-> FALSE, err |-> e, img |-> NoImage]
NoResult == Err("none")

(***************************************************************************)
(* The volume.  runs are the data runs of record 0's unnamed $DATA, i.e.   *)
(* the true layout of $MFT; record0 says how record 0 parses.              *)
(***************************************************************************)
Run(off, cnt) == [cluster_offset |-> off, cluster_count |-> cnt]

DiskRuns ==
    { <<Run(2, 1)>>,
      <<Run(2, 1), Run(4, 1)>>,
      <<Run(0, 1), Run(3, 1)>> }

Record0Kinds == {"ok", "invalid", "nodata"}

Disks ==
    { [runs |-> rs, record0 |-> "ok"] : rs \in DiskRuns }
    \cup { [runs |-> <<Run(2, 1)>>, record0 |-> k] : k \in Record0Kinds }

\* for run in &data_runs { if run.cluster_offset > 0 && run.cluster_count > 0 { push } }
RECURSIVE ExtentsOf(_)
ExtentsOf(runs) ==
    IF runs = <<>> THEN <<>>
    ELSE LET run == Head(runs)
         IN  IF run.cluster_offset > 0 /\ run.cluster_count > 0
             THEN <<[physical_cluster |-> run.cluster_offset,
                     cluster_count |-> run.cluster_count]>> \o ExtentsOf(Tail(runs))
             ELSE ExtentsOf(Tail(runs))

VolumeBytes == VolumeClusters * DEFAULT_CLUSTER_SIZE

\* number of records the $MFT of the volume holds
MftRecords(d) == (SumCounts(ExtentsOf(d.runs)) * DEFAULT_CLUSTER_SIZE) \div MFT_RECORD_SIZE

\* record N lies beyond the MFT's extent
BeyondMft(d, n) == n >= MftRecords(d)

(***************************************************************************)
(* FSCTL_GET_NTFS_FILE_RECORD.  A file reference is 64 bits: the record    *)
(* number in the low 48 bits and the sequence number in the high 16; it is *)
(* kept here as its two fields because 2^48 exceeds the checker's integers.*)
(***************************************************************************)
FileRef(seq, rec) == [seq |-> seq, rec |-> rec]

\* returned_ref & 0x0000_FFFF_FFFF_FFFF
Low48(ref) == ref.rec

\* What the ioctl can answer to a request for record n: a failure, or a
\* success carrying a reference to record n or to a neighbour of it (the
\* nearest in-use record when slot n is freed), always a record the $MFT
\* holds, and 8, 12 or 12 + record size bytes
RefDeltas == {-1, 0, 1}

NearestRecord(d, x) ==
    IF x < 0 THEN 0
    ELSE IF x >= MftRecords(d) THEN MftRecords(d) - 1
    ELSE x

IoctlRecords(d, n) == {NearestRecord(d, n + k) : k \in RefDeltas}

IoctlShapes ==
    { [bytes_returned |-> 8, record_length |-> MFT_RECORD_SIZE],
      [bytes_returned |-> IOCTL_HEADER_SIZE, record_length |-> MFT_RECORD_SIZE],
      [bytes_returned |-> IOCTL_HEADER_SIZE, record_length |-> 0],
      [bytes_returned |-> IOCTL_HEADER_SIZE + MFT_RECORD_SIZE,
       record_length |-> MFT_RECORD_SIZE] }

IoctlResponses(d, n) ==
    { [result |-> 0, bytes_returned |-> 0, record_length |-> 0, ref |-> FileRef(0, 0)] }
    \cup
    { [result |-> 1, bytes_returned |-> sh.bytes_returned,
       record_length |-> sh.record_length, ref |-> FileRef(s, r)] :
        sh \in IoctlShapes, s \in 0..MaxSeq, r \in IoctlRecords(d, n) }

NoIoctl == [req |-> -1,
            resp |-> [result |-> 0, bytes_returned |-> 0, record_length |-> 0,
                      ref |-> FileRef(0, 0)],
            out |-> NoResult]

\* read_mft_record_via_ioctl once the volume handle is known (vol_ok) and the
\* ioctl has answered resp
ReadViaIoctlNoGuard(record_number, vol_ok, resp) ==
    IF ~vol_ok THEN Err("NoVolume")
    ELSE IF resp.result = 0 THEN Err("IoctlFailed")
    ELSE IF resp.bytes_returned < 12 THEN Err("ShortHeader")
    ELSE IF resp.bytes_returned < IOCTL_HEADER_SIZE + resp.record_length
         THEN Err("Truncated")
    ELSE Ok([src |-> "ioctl", at |-> Low48(resp.ref),
             len |-> Min(resp.record_length, MFT_RECORD_SIZE)])

ReadViaIoctl(record_number, vol_ok, resp) ==
    IF ~vol_ok THEN Err("NoVolume")
    ELSE IF resp.result = 0 THEN Err("IoctlFailed")
    ELSE IF resp.bytes_returned < 12 THEN Err("ShortHeader")
    ELSE IF resp.bytes_returned < IOCTL_HEADER_SIZE + resp.record_length
         THEN Err("Truncated")
    ELSE IF resp.bytes_returned >= 8 /\ Low48(resp.ref) # record_number
         THEN Err("FreedSlot")
    ELSE Ok([src |-> "ioctl", at |-> Low48(resp.ref),
             len |-> Min(resp.record_length, MFT_RECORD_SIZE)])

(***************************************************************************)
(* FileSystemDiskReader                                                    *)
(***************************************************************************)
NewReader ==
    [mft_handle |-> FALSE,
     mft_file_handle |-> FALSE,
     volume_handle |-> FALSE,
     mft_offset |-> 0,
     mft_record_size |-> MFT_RECORD_SIZE,
     cluster_size |-> DEFAULT_CLUSTER_SIZE,
     mft_file_open_attempted |-> FALSE,
     mft_extents |-> <<>>,
     mft_extents_built |-> FALSE]

\* MFT start cluster stored in the boot sector of the volume
MftStartCluster(d) ==
    IF ExtentsOf(d.runs) = <<>> THEN 2 ELSE ExtentsOf(d.runs)[1].physical_cluster

\* seek + read_exact of len bytes at byte offset off of the volume handle
VolumeRead(off, len, io_ok) ==
    IF io_ok /\ off + len <= VolumeBytes
    THEN Ok([src |-> "volume", at |-> off, len |-> len])
    ELSE Err("Io")

\* open_mft: privilege / open failure leaves the handle closed; a boot
\* sector failure leaves the handle open and mft_offset as it was
OpenMftOutcomes == {"open_failed", "boot_failed", "opened"}

OpenMftReader(r, d, outcome) ==
    IF outcome = "open_failed" THEN r
    ELSE IF outcome = "boot_failed" THEN [r EXCEPT !.mft_handle = TRUE]
    ELSE [r EXCEPT !.mft_handle = TRUE,
                   !.mft_offset = MftStartCluster(d) * DEFAULT_CLUSTER_SIZE]

\* build_mft_data_run_map: the reader after the call and whether it returned Ok
BuildMftDataRunMap(r, d, vol_ok, resp) ==
    IF r.mft_extents_built THEN [reader |-> r, ok |-> TRUE]
    ELSE LET r1 == [r EXCEPT !.mft_extents_built = TRUE,
                             !.volume_handle = r.volume_handle \/ vol_ok]
             record0 == ReadViaIoctl(0, r1.volume_handle, resp)
         IN  IF ~record0.ok THEN [reader |-> r1, ok |-> FALSE]
             ELSE IF record0.img.len < 56 \/ d.record0 = "invalid"
                  THEN [reader |-> r1, ok |-> FALSE]
             ELSE IF d.record0 = "nodata" THEN [reader |-> r1, ok |-> FALSE]
             ELSE [reader |-> [r1 EXCEPT !.mft_extents = ExtentsOf(d.runs)],
                   ok |-> TRUE]

\* an extent walk that never moves its logical start past an extent
RECURSIVE PhysicalByteNoAdvance(_, _, _, _, _)
PhysicalByteNoAdvance(extents, logical_cluster, offset_in_cluster, logical_start, cluster_size) ==
    IF extents = <<>> THEN -1
    ELSE LET extent == Head(extents)
             logical_end == logical_start + extent.cluster_count
         IN  IF logical_cluster >= logical_start /\ logical_cluster < logical_end
             THEN (extent.physical_cluster + (logical_cluster - logical_start)) * cluster_size
                  + offset_in_cluster
             ELSE PhysicalByteNoAdvance(Tail(extents), logical_cluster,
                                        offset_in_cluster, logical_start, cluster_size)

\* the extent walk of read_mft_record_via_data_runs: the physical byte of the
\* record, or -1 when the logical cluster lies beyond the extent map
RECURSIVE PhysicalByte(_, _, _, _, _)
PhysicalByte(extents, logical_cluster, offset_in_cluster, logical_start, cluster_size) ==
    IF extents = <<>> THEN -1
    ELSE LET extent == Head(extents)
             logical_end == logical_start + extent.cluster_count
         IN  IF logical_cluster >= logical_start /\ logical_cluster < logical_end
             THEN (extent.physical_cluster + (logical_cluster - logical_start)) * cluster_size
                  + offset_in_cluster
             ELSE PhysicalByte(Tail(extents), logical_cluster, offset_in_cluster,
                               logical_end, cluster_size)

\* read_mft_record_via_data_runs: the reader after the call and its result
ReadViaDataRuns(r, d, record_number, vol_ok, resp, io_ok) ==
    LET built == IF ~r.mft_extents_built
                 THEN BuildMftDataRunMap(r, d, vol_ok, resp)
                 ELSE [reader |-> r, ok |-> TRUE]
        r1 == built.reader
        logical_byte == record_number * r1.mft_record_size
        logical_cluster == logical_byte \div r1.cluster_size
        offset_in_cluster == logical_byte % r1.cluster_size
        physical_byte == PhysicalByte(r1.mft_extents, logical_cluster,
                                      offset_in_cluster, 0, r1.cluster_size)
        r2 == [r1 EXCEPT !.volume_handle = r1.volume_handle \/ vol_ok]
    IN  IF ~built.ok THEN [reader |-> r1, res |-> Err("NoMap")]
        ELSE IF r1.mft_extents = <<>> THEN [reader |-> r1, res |-> Err("NoExtents")]
        ELSE IF physical_byte < 0 THEN [reader |-> r1, res |-> Err("BeyondExtentMap")]
        ELSE IF ~r2.volume_handle THEN [reader |-> r2, res |-> Err("NoVolume")]
        ELSE [reader |-> r2,
              res |-> VolumeRead(physical_byte, r2.mft_record_size, io_ok)]

(***************************************************************************)
(* read_mft_record, one action per strategy of the fallback chain          *)
(***************************************************************************)
Attempt(m, ok) == [m |-> m, ok |-> ok]

\* a caller invokes read_mft_record(n)
ReadMftRecord(n) ==
    /\ rpc \in {"idle", "done"}
    /\ rpc' = "m1"
    /\ rreq' = n
    /\ rtrace' = <<>>
    /\ rresult' = NoResult
    /\ ioctl_log' = NoIoctl
    /\ UNCHANGED <<disk, reader>>
    /\ UNCHANGED <<vvars, svars, pvars>>

\* Method 1: the $MFT file handle, opened once
Method1 ==
    /\ rpc = "m1"
    /\ \E open_ok \in BOOLEAN, io_ok \in BOOLEAN :
        LET try_open == ~reader.mft_file_handle /\ ~reader.mft_file_open_attempted
            r1 == IF try_open
                  THEN [reader EXCEPT !.mft_file_open_attempted = TRUE,
                                      !.mft_file_handle = open_ok]
                  ELSE reader
            offset == rreq * r1.mft_record_size
            read_ok == io_ok /\ offset + r1.mft_record_size
                                  <= MftRecords(disk) * MFT_RECORD_SIZE
        IN  /\ reader' = r1
            /\ IF r1.mft_file_handle
               THEN IF read_ok
                    THEN /\ rresult' = Ok([src |-> "mftfile", at |-> rreq,
                                           len |-> r1.mft_record_size])
                         /\ rtrace' = Append(rtrace, Attempt(1, TRUE))
                         /\ rpc' = "done"
                    ELSE /\ rtrace' = Append(rtrace, Attempt(1, FALSE))
                         /\ rpc' = "m2"
                         /\ UNCHANGED rresult
               ELSE /\ rtrace' = IF try_open THEN Append(rtrace, Attempt(1, FALSE))
                                 ELSE rtrace
                    /\ rpc' = "m2"
                    /\ UNCHANGED rresult
    /\ UNCHANGED <<disk, rreq, ioctl_log>>
    /\ UNCHANGED <<vvars, svars, pvars>>

\* Method 2 that goes on to the extent map after a successful ioctl
Method2KeepsGoing ==
    /\ rpc = "m2"
    /\ \E vol_ok \in BOOLEAN, resp \in IoctlResponses(disk, rreq) :
        LET handle == reader.volume_handle \/ vol_ok
            out == ReadViaIoctl(rreq, handle, resp)
        IN  /\ reader' = [reader EXCEPT !.volume_handle = handle]
            /\ ioctl_log' = IF handle THEN [req |-> rreq, resp |-> resp, out |-> out]
                            ELSE ioctl_log
            /\ rtrace' = Append(rtrace, Attempt(2, out.ok))
            /\ IF out.ok
               THEN rresult' = out /\ rpc' = "m3"
               ELSE UNCHANGED rresult /\ rpc' = "m3"
    /\ UNCHANGED <<disk, rreq>>
    /\ UNCHANGED <<vvars, svars, pvars>>

\* Method 2: FSCTL_GET_NTFS_FILE_RECORD
Method2 ==
    /\ rpc = "m2"
    /\ \E vol_ok \in BOOLEAN, resp \in IoctlResponses(disk, rreq) :
        LET handle == reader.volume_handle \/ vol_ok
            out == ReadViaIoctl(rreq, handle, resp)
        IN  /\ reader' = [reader EXCEPT !.volume_handle = handle]
            /\ ioctl_log' = IF handle THEN [req |-> rreq, resp |-> resp, out |-> out]
                            ELSE ioctl_log
            /\ rtrace' = Append(rtrace, Attempt(2, out.ok))
            /\ IF out.ok
               THEN rresult' = out /\ rpc' = "done"
               ELSE UNCHANGED rresult /\ rpc' = "m3"
    /\ UNCHANGED <<disk, rreq>>
    /\ UNCHANGED <<vvars, svars, pvars>>

\* Method 3: the MFT extent map
Method3 ==
    /\ rpc = "m3"
    /\ \E vol_ok \in BOOLEAN, resp \in IoctlResponses(disk, 0), io_ok \in BOOLEAN :
        LET call == ReadViaDataRuns(reader, disk, rreq, vol_ok, resp, io_ok)
            asked == ~reader.mft_extents_built /\ (reader.volume_handle \/ vol_ok)
        IN  /\ reader' = call.reader
            /\ ioctl_log' = IF asked
                            THEN [req |-> 0, resp |-> resp,
                                  out |-> ReadViaIoctl(0, TRUE, resp)]
                            ELSE ioctl_log
            /\ rtrace' = Append(rtrace, Attempt(3, call.res.ok))
            /\ IF call.res.ok
               THEN rresult' = call.res /\ rpc' = "done"
               ELSE UNCHANGED rresult /\ rpc' = "m4"
    /\ UNCHANGED <<disk, rreq>>
    /\ UNCHANGED <<vvars, svars, pvars>>

\* Method 4: mft_offset + record_number * record_size on the volume
Method4 ==
    /\ rpc = "m4"
    /\ \E outcome \in OpenMftOutcomes, io_ok \in BOOLEAN :
        LET r1 == IF reader.mft_handle THEN reader
                  ELSE OpenMftReader(reader, disk, outcome)
            opened == reader.mft_handle \/ outcome = "opened"
            offset == r1.mft_offset + rreq * r1.mft_record_size
            res == IF opened THEN VolumeRead(offset, r1.mft_record_size, io_ok)
                   ELSE Err("OpenMft")
        IN  /\ reader' = r1
            /\ rtrace' = Append(rtrace, Attempt(4, res.ok))
            /\ rresult' = res
            /\ rpc' = "done"
    /\ UNCHANGED <<disk, rreq, ioctl_log>>
    /\ UNCHANGED <<vvars, svars, pvars>>

\* open_mft called directly (test_access does so before its first read)
OpenMft ==
    /\ rpc = "idle"
    /\ ~reader.mft_handle
    /\ \E outcome \in OpenMftOutcomes :
        reader' = OpenMftReader(reader, disk, outcome)
    /\ UNCHANGED <<disk, rpc, rreq, rtrace, rresult, ioctl_log>>
    /\ UNCHANGED <<vvars, svars, pvars>>

(***************************************************************************)
(* Recovered bytes.  A buffer is a sequence of pieces; a piece is len      *)
(* bytes of one kind, read from cluster lcn (0: filled in, not read):      *)
(*   zero    - zero bytes                                                  *)
(*   pdfhead - starts with "%PDF-1.", holds neither %%EOF nor startxref    *)
(*   pdfdoc  - a whole small PDF: header, objects, startxref and %%EOF     *)
(*   text    - printable ASCII                                             *)
(*   noise   - uniformly random bytes                                      *)
(***************************************************************************)
Piece(kind, len, lcn) == [kind |-> kind, len |-> len, lcn |-> lcn]

\* what the clusters of the volume hold
ClusterKind(c) ==
    CASE c = 1 -> "pdfhead"
      [] c = 2 -> "noise"
      [] c = 3 -> "zero"
      [] c = 4 -> "text"
      [] c = 5 -> "pdfdoc"
      [] OTHER -> "noise"

RECURSIVE DataLen(_)
DataLen(data) == IF data = <<>> THEN 0 ELSE Head(data).len + DataLen(Tail(data))

\* vec![0u8; n]
Zeros(n) == IF n > 0 THEN <<Piece("zero", n, 0)>> ELSE <<>>

\* &data[..n]
RECURSIVE TakeBytes(_, _)
TakeBytes(data, n) ==
    IF data = <<>> \/ n <= 0 THEN <<>>
    ELSE IF Head(data).len <= n
         THEN <<Head(data)>> \o TakeBytes(Tail(data), n - Head(data).len)
         ELSE <<[Head(data) EXCEPT !.len = n]>>

\* read_clusters: seek to cluster_offset * cluster_size and read_exact
\* cluster_count * cluster_size bytes
ReadClusters(cluster_offset, cluster_count, cluster_size, io_ok) ==
    IF io_ok /\ (cluster_offset + cluster_count) * cluster_size <= VolumeBytes
    THEN [ok |-> TRUE,
          data |-> [j \in 1..cluster_count |->
                      Piece(ClusterKind(cluster_offset + j - 1), cluster_size,
                            cluster_offset + j - 1)]]
    ELSE [ok |-> FALSE, data |-> <<>>]

(***************************************************************************)
(* detect_corruption (filesystem_recovery_engine.rs)                       *)
(***************************************************************************)
NoCorruption == "None"

\* to_lowercase on the extensions and names of the model
Lower(str) ==
    CASE str = "PDF" -> "pdf"
      [] str = "Notes.txt" -> "notes.txt"
      [] OTHER -> str

\* data.iter().take(n).filter(|&&b| b != 0).count() > 0
RECURSIVE NonZeroInPrefix(_, _)
NonZeroInPrefix(data, n) ==
    IF data = <<>> \/ n <= 0 THEN FALSE
    ELSE Head(data).kind # "zero" \/ NonZeroInPrefix(Tail(data), n - Head(data).len)

\* bytes of a 256-byte stretch of the kind that are \n, \r, \t, 0x20..0x7E
\* or >= 0x80 (3 + 95 + 128 of 256 values for random bytes)
PrintablePer256(kind) ==
    CASE kind = "zero" -> 0
      [] kind = "noise" -> 226
      [] OTHER -> 256

RECURSIVE PrintableIn(_, _)
PrintableIn(data, n) ==
    IF data = <<>> \/ n <= 0 THEN 0
    ELSE LET k == Min(Head(data).len, n)
         IN  (PrintablePer256(Head(data).kind) * k) \div 256
             + PrintableIn(Tail(data), n - k)

\* header.starts_with(b"%PDF")
StartsWithPdf(data) == data # <<>> /\ Head(data).kind \in {"pdfhead", "pdfdoc"}

\* &data[4..8] == b"ftyp" (or mdat, moov, free): no piece kind of the model
StartsWithMp4Box(data) == FALSE

CompressedFormats == {"zip", "rar", "7z", "gz", "bz2", "xz", "mp4", "mkv", "avi",
                      "mov", "mp3", "aac", "ogg", "flac", "m4a", "webm", "webp",
                      "heic", "avif"}

\* header check that accepts whatever is not all zeros
DetectCorruptionNoHeader(data, extension) ==
    IF DataLen(data) < 8 THEN "TooSmall"
    ELSE IF ~NonZeroInPrefix(data, 4096) THEN "AllZeros"
    ELSE NoCorruption

DetectCorruption(data, extension) ==
    IF DataLen(data) < 8 THEN "TooSmall"
    ELSE IF ~NonZeroInPrefix(data, 4096) THEN "AllZeros"
    ELSE LET known == extension \in {"pdf", "txt", "mp4"}
             sample_len == Min(DataLen(data), 256)
             valid_header ==
                 CASE extension = "pdf" -> StartsWithPdf(data)
                   [] extension = "mp4" -> DataLen(data) >= 12 /\ StartsWithMp4Box(data)
                   [] extension = "txt" ->
                        (PrintableIn(data, sample_len) * 100) \div sample_len >= 70
                   [] OTHER -> TRUE
         IN  IF ~known THEN NoCorruption
             ELSE IF ~valid_header /\ extension \notin CompressedFormats
                  THEN "BadHeader"
             ELSE NoCorruption

\* the last 2 KB of the buffer hold %%EOF and startxref: the buffer ends with
\* the end of a pdfdoc cluster
HasPdfTrailer(data) ==
    /\ data # <<>>
    /\ data[Len(data)].kind = "pdfdoc"
    /\ data[Len(data)].len = DEFAULT_CLUSTER_SIZE

(***************************************************************************)
(* Descriptors (RecoverableFileFS / FileInfoForRecovery)                   *)
(***************************************************************************)
FileName == "Notes.txt"

RecoverSizes == {0, 5, 700, 6000}

RecoverExtensions == {"pdf", "PDF", "txt", "mp4", "dat"}

RecoverRuns ==
    { <<>>,
      <<Run(1, 2)>>,
      <<Run(3, 1), Run(1, 1)>>,
      <<Run(0, 1), Run(4, 1)>>,
      <<Run(5, 1)>>,
      <<Run(2, 1), Run(9, 1)>>,
      <<Run(1, 0)>> }

\* is_deleted is Option<bool> in FileInfoForRecovery; in_recycle says that the
\* descriptor's path lies in the $Recycle.Bin subtree; id is "fs_mft_<n>" or
\* a string that names no record
RecoverFiles ==
    [name : {FileName},
     is_deleted : {"true", "false", "unset"},
     in_recycle : BOOLEAN,
     size : RecoverSizes,
     extension : RecoverExtensions,
     data_runs : RecoverRuns,
     has_record_id : BOOLEAN]

\* file_info.is_deleted.unwrap_or(true)
IsDeleted(f) == f.is_deleted # "false"

\* the MFT record re-read for resident extraction: its FILE signature, its
\* canonical filename ("" when it has none), and the content length of its
\* resident unnamed $DATA (-1 when it has none)
ResidentRecords ==
    [signature : BOOLEAN,
     file_name : {"Notes.txt", "notes.txt", "other.txt", ""},
     content_length : {-1, 0, 14, 900}]

\* extract_resident_data(mft_record, expected_size) of the engine
EngineExtractResident(rec, expected_size) ==
    IF ~rec.signature THEN <<>>
    ELSE IF rec.content_length > 0
         THEN <<Piece("text", Min(rec.content_length, expected_size), 0)>>
         ELSE <<>>

\* extract_resident_data(record) of main_filesystem.rs: Some(data), possibly
\* empty, or None
MainExtractResident(rec) ==
    IF ~rec.signature \/ rec.content_length < 0 THEN [some |-> FALSE, data |-> <<>>]
    ELSE [some |-> TRUE,
          data |-> IF rec.content_length > 0
                   THEN <<Piece("text", rec.content_length, 0)>> ELSE <<>>]

\* extract_filename_from_record
ExtractFilename(rec) == IF rec.signature THEN rec.file_name ELSE ""

NoFile == [by |-> "none", data |-> <<>>, record_name |-> ""]
Written(by, data, record_name) == [by |-> by, data |-> data, record_name |-> record_name]

NoRecovery == [returned |-> FALSE, success |-> FALSE, bytes_recovered |-> 0]
Recovered(n) == [returned |-> TRUE, success |-> TRUE, bytes_recovered |-> n]
Failed == [returned |-> TRUE, success |-> FALSE, bytes_recovered |-> 0]

Tried(strategy, out) == [s |-> strategy, out |-> out]

RecoverIdle ==
    /\ pipeline = "none"
    /\ file = [name |-> FileName, is_deleted |-> "unset", in_recycle |-> FALSE,
               size |-> 0, extension |-> "dat", data_runs |-> <<>>,
               has_record_id |-> FALSE]
    /\ vpc = "done"
    /\ vtrace = <<>>
    /\ vresult = NoRecovery
    /\ dest = NoFile

(***************************************************************************)
(* Cluster reassembly                                                      *)
(***************************************************************************)
\* the run loop of FileSystemRecoveryEngine::recover_file; failed holds the
\* indexes of the runs whose read fails with an I/O error
RECURSIVE EngineReassemble(_, _, _, _, _)
EngineReassemble(runs, i, bytes_remaining, cluster_size, failed) ==
    IF i > Len(runs) \/ bytes_remaining = 0 THEN <<>>
    ELSE LET run == runs[i]
         IN  IF run.cluster_offset <= 0
             THEN LET sparse_size == Min(run.cluster_count * cluster_size, bytes_remaining)
                  IN  Zeros(sparse_size)
                      \o EngineReassemble(runs, i + 1, bytes_remaining - sparse_size,
                                          cluster_size, failed)
             ELSE LET clusters_needed == (bytes_remaining + cluster_size - 1) \div cluster_size
                      cluster_count == Min(clusters_needed, run.cluster_count)
                      read == ReadClusters(run.cluster_offset, cluster_count,
                                           cluster_size, i \notin failed)
                      to_take == Min(bytes_remaining, DataLen(read.data))
                      failed_size == Min(run.cluster_count * cluster_size, bytes_remaining)
                  IN  IF read.ok
                      THEN TakeBytes(read.data, to_take)
                           \o EngineReassemble(runs, i + 1, bytes_remaining - to_take,
                                               cluster_size, failed)
                      ELSE Zeros(failed_size)
                           \o EngineReassemble(runs, i + 1, bytes_remaining - failed_size,
                                               cluster_size, failed)

\* the run loop of recover_deleted_file_fs
RECURSIVE MainReassemble(_, _, _, _, _, _)
MainReassemble(runs, i, size, total_read, cluster_size, failed) ==
    IF i > Len(runs) THEN <<>>
    ELSE LET run == runs[i]
             bytes_to_read == run.cluster_count * cluster_size
             bytes_needed == IF size > total_read THEN size - total_read ELSE 0
             read_count == Min(bytes_to_read, bytes_needed)
             cluster_count == (read_count + cluster_size - 1) \div cluster_size
             read == ReadClusters(run.cluster_offset, cluster_count, cluster_size,
                                  i \notin failed)
             actual_bytes == Min(DataLen(read.data), bytes_needed)
         IN  IF run.cluster_offset <= 0 \/ run.cluster_count <= 0
             THEN MainReassemble(runs, i + 1, size, total_read, cluster_size, failed)
             ELSE IF read_count = 0 THEN <<>>
             ELSE IF ~read.ok THEN <<>>
             ELSE TakeBytes(read.data, actual_bytes)
                  \o (IF total_read + actual_bytes >= size THEN <<>>
                      ELSE MainReassemble(runs, i + 1, size, total_read + actual_bytes,
                                          cluster_size, failed))

(***************************************************************************)
(* FileSystemRecoveryEngine::recover_file                                  *)
(***************************************************************************)
Finish(result, d) ==
    /\ vpc' = "done"
    /\ vresult' = result
    /\ dest' = d

GoOn(next) ==
    /\ vpc' = next
    /\ UNCHANGED <<vresult, dest>>

\* Method 1: direct copy whenever the descriptor's path exists
EngineCopy ==
    /\ pipeline = "engine"
    /\ vpc = "copy"
    /\ \E mkdir_ok \in BOOLEAN, exists \in BOOLEAN, copy_ok \in BOOLEAN,
          initialized \in BOOLEAN :
        IF ~mkdir_ok
        THEN Finish(Failed, dest) /\ UNCHANGED vtrace
        ELSE IF exists /\ copy_ok
        THEN /\ vtrace' = Append(vtrace, Tried("copy", "ok"))
             /\ Finish(Recovered(file.size), Written("copy", <<>>, ""))
        ELSE /\ vtrace' = IF exists THEN Append(vtrace, Tried("copy", "fail"))
                          ELSE vtrace
             /\ IF initialized THEN GoOn("cluster") ELSE Finish(Failed, dest)
    /\ UNCHANGED <<pipeline, file>>
    /\ UNCHANGED <<rvars, svars, pvars>>

\* Method 2 that hands rejected bytes on to the next strategy
EngineClusterFallsThrough ==
    /\ pipeline = "engine"
    /\ vpc = "cluster"
    /\ IF file.data_runs # <<>> /\ file.size > 0
       THEN \E failed \in SUBSET (1..Len(file.data_runs)), save_ok \in BOOLEAN :
             LET read == EngineReassemble(file.data_runs, 1, file.size,
                                          DEFAULT_CLUSTER_SIZE, failed)
                 recovered_data == TakeBytes(read, file.size)
                 warning == DetectCorruption(recovered_data, Lower(file.extension))
             IN  IF recovered_data = <<>>
                 THEN /\ vtrace' = Append(vtrace, Tried("cluster", "fail"))
                      /\ GoOn("resident")
                 ELSE IF warning # NoCorruption
                 THEN /\ vtrace' = Append(vtrace, Tried("cluster", "corrupt"))
                      /\ GoOn("resident")
                 ELSE IF save_ok
                 THEN /\ vtrace' = Append(vtrace, Tried("cluster", "ok"))
                      /\ Finish(Recovered(DataLen(recovered_data)),
                                Written("cluster", recovered_data, ""))
                 ELSE /\ vtrace' = Append(vtrace, Tried("cluster", "fail"))
                      /\ Finish(Failed, dest)
       ELSE GoOn("resident") /\ UNCHANGED vtrace
    /\ UNCHANGED <<pipeline, file>>
    /\ UNCHANGED <<rvars, svars, pvars>>

\* Method 2: cluster reassembly, validated by detect_corruption
EngineCluster ==
    /\ pipeline = "engine"
    /\ vpc = "cluster"
    /\ IF file.data_runs # <<>> /\ file.size > 0
       THEN \E failed \in SUBSET (1..Len(file.data_runs)), save_ok \in BOOLEAN :
             LET read == EngineReassemble(file.data_runs, 1, file.size,
                                          DEFAULT_CLUSTER_SIZE, failed)
                 recovered_data == TakeBytes(read, file.size)
                 warning == DetectCorruption(recovered_data, Lower(file.extension))
             IN  IF recovered_data = <<>>
                 THEN /\ vtrace' = Append(vtrace, Tried("cluster", "fail"))
                      /\ GoOn("resident")
                 ELSE IF warning # NoCorruption
                 THEN /\ vtrace' = Append(vtrace, Tried("cluster", "corrupt"))
                      /\ Finish(Failed, dest)
                 ELSE IF save_ok
                 THEN /\ vtrace' = Append(vtrace, Tried("cluster", "ok"))
                      /\ Finish(Recovered(DataLen(recovered_data)),
                                Written("cluster", recovered_data, ""))
                 ELSE /\ vtrace' = Append(vtrace, Tried("cluster", "fail"))
                      /\ Finish(Failed, dest)
       ELSE GoOn("resident") /\ UNCHANGED vtrace
    /\ UNCHANGED <<pipeline, file>>
    /\ UNCHANGED <<rvars, svars, pvars>>

\* Method 3: resident $DATA of the re-read MFT record
EngineResident ==
    /\ pipeline = "engine"
    /\ vpc = "resident"
    /\ IF file.size > 0 /\ file.size <= 700 /\ file.has_record_id
       THEN \E read_ok \in BOOLEAN, rec \in ResidentRecords, save_ok \in BOOLEAN :
             LET resident_data == EngineExtractResident(rec, file.size)
             IN  IF read_ok /\ resident_data # <<>>
                 THEN IF save_ok
                      THEN /\ vtrace' = Append(vtrace, Tried("resident", "ok"))
                           /\ Finish(Recovered(DataLen(resident_data)),
                                     Written("resident", resident_data, rec.file_name))
                      ELSE /\ vtrace' = Append(vtrace, Tried("resident", "fail"))
                           /\ Finish(Failed, dest)
                 ELSE /\ vtrace' = Append(vtrace, Tried("resident", "fail"))
                      /\ Finish(Failed, dest)
       ELSE Finish(Failed, dest) /\ UNCHANGED vtrace
    /\ UNCHANGED <<pipeline, file>>
    /\ UNCHANGED <<rvars, svars, pvars>>

(***************************************************************************)
(* recover_deleted_file_fs (main_filesystem.rs)                            *)
(***************************************************************************)
\* destination directory, then the direct copy of a descriptor that is not
\* deleted
MainCopy ==
    /\ pipeline = "mainfs"
    /\ vpc = "copy"
    /\ \E mkdir_ok \in BOOLEAN, exists \in BOOLEAN, copy_ok \in BOOLEAN :
        LET next == IF file.data_runs = <<>> THEN "recycle" ELSE "cluster"
        IN  IF ~mkdir_ok
            THEN Finish(Failed, dest) /\ UNCHANGED vtrace
            ELSE IF ~IsDeleted(file) /\ exists
            THEN IF copy_ok
                 THEN /\ vtrace' = Append(vtrace, Tried("copy", "ok"))
                      /\ Finish(Recovered(file.size), Written("copy", <<>>, ""))
                 ELSE /\ vtrace' = Append(vtrace, Tried("copy", "fail"))
                      /\ GoOn(next)
            ELSE GoOn(next) /\ UNCHANGED vtrace
    /\ UNCHANGED <<pipeline, file>>
    /\ UNCHANGED <<rvars, svars, pvars>>

\* cluster reassembly, written out as read
MainCluster ==
    /\ pipeline = "mainfs"
    /\ vpc = "cluster"
    /\ \E reader_ok \in BOOLEAN, failed \in SUBSET (1..Len(file.data_runs)),
          save_ok \in BOOLEAN :
        LET read == MainReassemble(file.data_runs, 1, file.size, 0,
                                   DEFAULT_CLUSTER_SIZE, failed)
            recovered_data == TakeBytes(read, file.size)
        IN  IF ~reader_ok
            THEN Finish(Failed, dest) /\ UNCHANGED vtrace
            ELSE IF read = <<>>
            THEN /\ vtrace' = Append(vtrace, Tried("cluster", "fail"))
                 /\ GoOn("recycle")
            ELSE IF save_ok
            THEN /\ vtrace' = Append(vtrace, Tried("cluster", "ok"))
                 /\ Finish(Recovered(DataLen(recovered_data)),
                           Written("cluster", recovered_data, ""))
            ELSE /\ vtrace' = Append(vtrace, Tried("cluster", "fail"))
                 /\ Finish(Failed, dest)
    /\ UNCHANGED <<pipeline, file>>
    /\ UNCHANGED <<rvars, svars, pvars>>

\* recover_from_recycle_bin that does not end the recovery when it succeeds
MainRecycleKeepsGoing ==
    /\ pipeline = "mainfs"
    /\ vpc = "recycle"
    /\ \E found \in BOOLEAN :
        /\ vtrace' = Append(vtrace, Tried("recycle", IF found THEN "ok" ELSE "fail"))
        /\ IF file.data_runs = <<>>
           THEN /\ vpc' = "vss"
                /\ vresult' = vresult
                /\ dest' = IF found THEN Written("recycle", <<>>, "") ELSE dest
           ELSE Finish(Failed, dest)
    /\ UNCHANGED <<pipeline, file>>
    /\ UNCHANGED <<rvars, svars, pvars>>

\* recover_from_recycle_bin: first of the fallbacks of a descriptor without
\* data runs, only fallback of an empty cluster read
MainRecycle ==
    /\ pipeline = "mainfs"
    /\ vpc = "recycle"
    /\ \E found \in BOOLEAN :
        /\ vtrace' = Append(vtrace, Tried("recycle", IF found THEN "ok" ELSE "fail"))
        /\ IF found
           THEN Finish(Recovered(file.size), Written("recycle", <<>>, ""))
           ELSE IF file.data_runs = <<>> THEN GoOn("vss") ELSE Finish(Failed, dest)
    /\ UNCHANGED <<pipeline, file>>
    /\ UNCHANGED <<rvars, svars, pvars>>

\* recover_from_vss; a shadow copy of zero bytes is copied and then passed over
MainVss ==
    /\ pipeline = "mainfs"
    /\ vpc = "vss"
    /\ \E shadow \in {"none", "copied", "copied_empty"} :
        CASE shadow = "copied" ->
               /\ vtrace' = Append(vtrace, Tried("vss", "ok"))
               /\ Finish(Recovered(file.size), Written("vss", <<>>, ""))
          [] shadow = "copied_empty" ->
               /\ vtrace' = Append(vtrace, Tried("vss", "empty"))
               /\ vpc' = "resident"
               /\ vresult' = vresult
               /\ dest' = Written("vss", <<>>, "")
          [] OTHER ->
               /\ vtrace' = Append(vtrace, Tried("vss", "fail"))
               /\ GoOn("resident")
    /\ UNCHANGED <<pipeline, file>>
    /\ UNCHANGED <<rvars, svars, pvars>>

\* recover_resident_file
MainResident ==
    /\ pipeline = "mainfs"
    /\ vpc = "resident"
    /\ \E read_ok \in BOOLEAN, rec \in ResidentRecords, save_ok \in BOOLEAN :
        LET record_filename == ExtractFilename(rec)
            resident == MainExtractResident(rec)
            reused == record_filename # "" /\ Lower(record_filename) # Lower(file.name)
        IN  IF file.has_record_id /\ read_ok /\ ~reused
               /\ resident.some /\ resident.data # <<>> /\ save_ok
            THEN /\ vtrace' = Append(vtrace, Tried("resident", "ok"))
                 /\ Finish(Recovered(DataLen(resident.data)),
                           Written("resident", resident.data, record_filename))
            ELSE /\ vtrace' = Append(vtrace, Tried("resident", "fail"))
                 /\ GoOn("carve")
    /\ UNCHANGED <<pipeline, file>>
    /\ UNCHANGED <<rvars, svars, pvars>>

\* carve_file_from_volume, the last resort
MainCarve ==
    /\ pipeline = "mainfs"
    /\ vpc = "carve"
    /\ \E carved \in BOOLEAN :
        IF carved
        THEN /\ vtrace' = Append(vtrace, Tried("carve", "ok"))
             /\ Finish(Recovered(file.size), Written("carve", <<>>, ""))
        ELSE /\ vtrace' = Append(vtrace, Tried("carve", "fail"))
             /\ Finish(Failed, dest)
    /\ UNCHANGED <<pipeline, file>>
    /\ UNCHANGED <<rvars, svars, pvars>>

(***************************************************************************)
(* MFT scans: FileSystemRecoveryEngine::scan_mft and                       *)
(* RecoveryEngine::quick_scan / scan_mft_extended                          *)
(***************************************************************************)
\* a record of the scanned MFT: a deleted file, a file in use, bytes that do
\* not parse, or a record whose read fails
ScanRecordKinds == {"deleted", "active", "unparsable", "unreadable"}

Mfts == [0..(MaxScanRecords - 1) -> ScanRecordKinds]

Entry(record, is_deleted, source, recovery_chance) ==
    [record |-> record, is_deleted |-> is_deleted, source |-> source,
     recovery_chance |-> recovery_chance]

\* modified time and recovery chance of the entry parsed from record n
Modified(n) == (2 * n) % 3
ScanChance(n) == IF n % 2 = 0 THEN 45 ELSE 80

NoScan == [record_num |-> 0, consecutive_failures |-> 0, parsed_entries |-> <<>>,
           limit |-> 0, quick |-> FALSE, scanned |-> 0, exited_on_cancel |-> FALSE,
           mft_entries |-> <<>>, after_cancelled_scan |-> FALSE]

NoScanResult == [status |-> "none", entries |-> <<>>, mft_records_scanned |-> 0]
ScanError == [status |-> "error", entries |-> <<>>, mft_records_scanned |-> 0]
ScanOk(entries, scanned) ==
    [status |-> "ok", entries |-> entries, mft_records_scanned |-> scanned]

\* sort_by(|a, b| key(b).cmp(key(a))): stable, descending
RECURSIVE InsertDesc(_, _, _)
InsertDesc(e, sorted, key) ==
    IF sorted = <<>> THEN <<e>>
    ELSE IF key[e] > key[Head(sorted)] THEN <<e>> \o sorted
    ELSE <<Head(sorted)>> \o InsertDesc(e, Tail(sorted), key)

RECURSIVE SortDesc(_, _)
SortDesc(entries, key) ==
    IF entries = <<>> THEN <<>>
    ELSE InsertDesc(entries[Len(entries)],
                    SortDesc(SubSeq(entries, 1, Len(entries) - 1), key), key)

Range(seq) == {seq[i] : i \in 1..Len(seq)}

Filter(seq, keep) == SelectSeq(seq, LAMBDA e : e \in keep)

Truncate(seq, n) == SubSeq(seq, 1, Min(Len(seq), n))

\* the USN deletions in journal order
RECURSIVE Ascending(_)
Ascending(set) ==
    IF set = {} THEN <<>>
    ELSE LET least == CHOOSE n \in set : \A m \in set : n <= m
         IN  <<least>> \o Ascending(set \ {least})

UsnDeletions == {{}, {0}, {MaxScanRecords - 1}, 0..(MaxScanRecords - 1)}

\* the USN entries merged into the MFT entries: one per journal record that
\* the MFT entries do not already hold as deleted
UsnMerge(mft_entries, usn, m) ==
    LET existing_deleted_records ==
            {e.record : e \in {x \in Range(mft_entries) : x.is_deleted}}
        added == Ascending(usn \ existing_deleted_records)
    IN  mft_entries \o
        [i \in 1..Len(added) |->
            Entry(added[i], TRUE, "USN", IF m[added[i]] = "deleted" THEN 45 ELSE 3)]

\* a cap that keeps the active entries ahead of the deleted ones
CapOutputActiveFirst(mft_entries) ==
    IF Len(mft_entries) > MaxTotal
    THEN LET all == Range(mft_entries)
             deleted0 == Filter(mft_entries, {e \in all : e.is_deleted})
             active0 == Filter(mft_entries, {e \in all : ~e.is_deleted})
             deleted == Truncate(deleted0, MaxDeleted)
             active_budget == IF MaxTotal > Len(deleted)
                              THEN MaxTotal - Len(deleted) ELSE 0
         IN  Truncate(active0, active_budget) \o deleted
    ELSE mft_entries

\* the hard cap on the output
CapOutput(mft_entries) ==
    IF Len(mft_entries) > MaxTotal
    THEN LET all == Range(mft_entries)
             deleted0 == Filter(mft_entries, {e \in all : e.is_deleted})
             active0 == Filter(mft_entries, {e \in all : ~e.is_deleted})
             deleted == IF Len(deleted0) > MaxDeleted
                        THEN Truncate(SortDesc(deleted0,
                                 [e \in all |-> e.recovery_chance]), MaxDeleted)
                        ELSE deleted0
             active_budget == IF MaxTotal > Len(deleted)
                              THEN MaxTotal - Len(deleted) ELSE 0
         IN  deleted \o Truncate(active0, active_budget)
    ELSE mft_entries

\* cancel() of either engine
Cancel ==
    /\ ~cancelled
    /\ cancelled' = TRUE
    /\ UNCHANGED <<scanner, mft, spc, scan, sresult, scans>>
    /\ UNCHANGED <<rvars, vvars, pvars>>

\* entry of scan_mft / quick_scan: initialize, then the limit of the walk
\* (after_cancelled_scan records that a scan before this one left its loop
\* on the cancel flag)
ScanStart ==
    /\ spc \in {"idle", "done"}
    /\ scans < MaxScans
    /\ scans' = scans + 1
    /\ \E init_ok \in BOOLEAN, quick \in BOOLEAN, limit \in 1..MaxScanRecords :
        IF init_ok
        THEN /\ spc' = "loop"
             /\ scan' = [NoScan EXCEPT
                           !.quick = quick,
                           !.limit = IF scanner = "engine" THEN limit
                                     ELSE MaxScanRecords,
                           !.after_cancelled_scan =
                               scan.exited_on_cancel \/ scan.after_cancelled_scan]
             /\ sresult' = NoScanResult
        ELSE /\ spc' = "done"
             /\ scan' = NoScan
             /\ sresult' = ScanError
    /\ UNCHANGED <<scanner, mft, cancelled>>
    /\ UNCHANGED <<rvars, vvars, pvars>>

\* a record loop whose failure count is never set back to zero
EngineScanStepNoReset ==
    /\ scanner = "engine"
    /\ spc = "loop"
    /\ IF ~(scan.record_num < scan.limit
            /\ scan.consecutive_failures < MaxConsecutiveFailures)
       THEN spc' = "finish" /\ scan' = scan
       ELSE IF cancelled
       THEN spc' = "finish" /\ scan' = [scan EXCEPT !.exited_on_cancel = TRUE]
       ELSE LET n == scan.record_num
                kind == mft[n]
            IN  /\ spc' = "loop"
                /\ scan' =
                     IF kind = "unreadable"
                     THEN [scan EXCEPT
                             !.consecutive_failures = @ + 1,
                             !.record_num = @ + 1]
                     ELSE [scan EXCEPT
                             !.scanned = @ + 1,
                             !.parsed_entries =
                                 IF kind = "unparsable" THEN @
                                 ELSE Append(@, Entry(n, kind = "deleted", "MFT",
                                                      ScanChance(n))),
                             !.record_num = @ + 1]
    /\ UNCHANGED <<scanner, mft, cancelled, sresult, scans>>
    /\ UNCHANGED <<rvars, vvars, pvars>>

\* one turn of the record loop of scan_mft
EngineScanStep ==
    /\ scanner = "engine"
    /\ spc = "loop"
    /\ IF ~(scan.record_num < scan.limit
            /\ scan.consecutive_failures < MaxConsecutiveFailures)
       THEN spc' = "finish" /\ scan' = scan
       ELSE IF cancelled
       THEN spc' = "finish" /\ scan' = [scan EXCEPT !.exited_on_cancel = TRUE]
       ELSE LET n == scan.record_num
                kind == mft[n]
            IN  /\ spc' = "loop"
                /\ scan' =
                     IF kind = "unreadable"
                     THEN [scan EXCEPT
                             !.consecutive_failures = @ + 1,
                             !.record_num = @ + 1]
                     ELSE [scan EXCEPT
                             !.consecutive_failures = 0,
                             !.scanned = @ + 1,
                             !.parsed_entries =
                                 IF kind = "unparsable" THEN @
                                 ELSE Append(@, Entry(n, kind = "deleted", "MFT",
                                                      ScanChance(n))),
                             !.record_num = @ + 1]
    /\ UNCHANGED <<scanner, mft, cancelled, sresult, scans>>
    /\ UNCHANGED <<rvars, vvars, pvars>>

\* scan_mft after the loop: conversion, USN merge, sort, cap, Ok
EngineScanFinish ==
    /\ scanner = "engine"
    /\ spc = "finish"
    /\ \E usn_ok \in BOOLEAN, usn \in UsnDeletions :
        LET mft_entries == scan.parsed_entries
            merged == IF usn_ok THEN UsnMerge(mft_entries, usn, mft) ELSE mft_entries
            sorted == IF scan.quick
                      THEN SortDesc(merged, [e \in Range(merged) |-> e.record])
                      ELSE SortDesc(merged,
                                    [e \in Range(merged) |-> Modified(e.record)])
        IN  /\ sresult' = ScanOk(CapOutput(sorted), scan.scanned)
            /\ scan' = [scan EXCEPT !.mft_entries = sorted]
    /\ spc' = "done"
    /\ UNCHANGED <<scanner, mft, cancelled, scans>>
    /\ UNCHANGED <<rvars, vvars, pvars>>

\* one turn of the first pass of scan_mft_extended
ExtendedScanStep ==
    /\ scanner = "extended"
    /\ spc = "loop"
    /\ IF ~(scan.record_num < scan.limit)
       THEN spc' = "finish" /\ scan' = scan
       ELSE IF cancelled
       THEN spc' = "finish" /\ scan' = [scan EXCEPT !.exited_on_cancel = TRUE]
       ELSE LET n == scan.record_num
                kind == mft[n]
            IN  /\ spc' = "loop"
                /\ scan' = [scan EXCEPT
                              !.parsed_entries =
                                  IF kind \in {"unparsable", "unreadable"} THEN @
                                  ELSE Append(@, Entry(n, kind = "deleted", "mft",
                                                       ScanChance(n))),
                              !.record_num = @ + 1]
    /\ UNCHANGED <<scanner, mft, cancelled, sresult, scans>>
    /\ UNCHANGED <<rvars, vvars, pvars>>

\* scan_mft_extended after the first pass and quick_scan after it: deleted
\* entries only, highest recovery chance first
ExtendedScanFinish ==
    /\ scanner = "extended"
    /\ spc = "finish"
    /\ LET record_entries == scan.parsed_entries
           files == Filter(record_entries,
                           {e \in Range(record_entries) : e.is_deleted})
       IN  sresult' = ScanOk(SortDesc(files,
                                 [e \in Range(files) |-> e.recovery_chance]),
                             MaxScanRecords)
    /\ spc' = "done"
    /\ UNCHANGED <<scanner, mft, cancelled, scan, scans>>
    /\ UNCHANGED <<rvars, vvars, pvars>>

PureIdle ==
    /\ pin = <<>>
    /\ pout = <<>>
    /\ pop = "none"

ScanIdle ==
    /\ scanner = "engine"
    /\ mft = [n \in 0..(MaxScanRecords - 1) |-> "active"]
    /\ cancelled = FALSE
    /\ spc = "idle"
    /\ scan = NoScan
    /\ sresult = NoScanResult
    /\ scans = 0

(***************************************************************************)
(* Data runs (ntfs_parser.rs).  A buffer is a sequence of bytes 0..255.    *)
(***************************************************************************)
RECURSIVE Pow256(_)
Pow256(n) == IF n = 0 THEN 1 ELSE 256 * Pow256(n - 1)

\* value |= (byte as u64) << (i * 8), for i in 0..size
RECURSIVE LeValue(_)
LeValue(bytes) ==
    IF bytes = <<>> THEN 0 ELSE Head(bytes) + 256 * LeValue(Tail(bytes))

\* the i64 that the offset bytes stand for: the little-endian value, with the
\* bytes above the field filled with 0xFF when the top bit of the field's last
\* byte is set
SignedLeValue(bytes) ==
    IF bytes # <<>> /\ bytes[Len(bytes)] >= 128
    THEN LeValue(bytes) - Pow256(Len(bytes))
    ELSE LeValue(bytes)

\* a decoder that takes every offset field as an absolute cluster number
RECURSIVE ParseDataRunsAbsolute(_, _, _)
ParseDataRunsAbsolute(data, offset, prev_cluster) ==
    IF ~(offset < Len(data)) THEN <<>>
    ELSE LET header == data[offset + 1]
             length_size == header % 16
             offset_size == (header \div 16) % 16
             cluster_count == LeValue(SubSeq(data, offset + 2, offset + 1 + length_size))
             cluster_offset ==
                 IF offset_size > 0
                 THEN SignedLeValue(SubSeq(data, offset + 2 + length_size,
                                           offset + 1 + length_size + offset_size))
                 ELSE 0
         IN  IF header = 0 THEN <<>>
             ELSE IF offset + 1 + length_size + offset_size > Len(data) THEN <<>>
             ELSE <<Run(cluster_offset, cluster_count)>>
                  \o ParseDataRunsAbsolute(data, offset + 1 + length_size + offset_size,
                                           cluster_offset)

\* parse_data_runs: the loop from byte offset on, prev_cluster being the
\* cluster offset of the last run that had an offset field
RECURSIVE ParseDataRuns(_, _, _)
ParseDataRuns(data, offset, prev_cluster) ==
    IF ~(offset < Len(data)) THEN <<>>
    ELSE LET header == data[offset + 1]
             length_size == header % 16
             offset_size == (header \div 16) % 16
             cluster_count == LeValue(SubSeq(data, offset + 2, offset + 1 + length_size))
             cluster_offset ==
                 IF offset_size > 0
                 THEN SignedLeValue(SubSeq(data, offset + 2 + length_size,
                                           offset + 1 + length_size + offset_size))
                      + prev_cluster
                 ELSE 0
         IN  IF header = 0 THEN <<>>
             ELSE IF offset + 1 + length_size + offset_size > Len(data) THEN <<>>
             ELSE <<Run(cluster_offset, cluster_count)>>
                  \o ParseDataRuns(data, offset + 1 + length_size + offset_size,
                                   IF offset_size > 0 THEN cluster_offset
                                   ELSE prev_cluster)

\* the on-disk encoding of a run list (NTFS mapping pairs): per run a header
\* byte with the two field widths, the count and the signed delta, both
\* little-endian
RECURSIVE LeBytes(_, _)
LeBytes(value, width) ==
    IF width = 0 THEN <<>>
    ELSE <<value % 256>> \o LeBytes(value \div 256, width - 1)

SignedLeBytes(delta, width) ==
    LeBytes(IF delta < 0 THEN delta + Pow256(width) ELSE delta, width)

RECURSIVE EncodeRuns(_)
EncodeRuns(pairs) ==
    IF pairs = <<>> THEN <<>>
    ELSE LET pair == Head(pairs)
         IN  <<pair.length_size + 16 * pair.offset_size>>
             \o LeBytes(pair.count, pair.length_size)
             \o SignedLeBytes(pair.delta, pair.offset_size)
             \o EncodeRuns(Tail(pairs))

\* (count, delta) pairs with field widths that hold them; a delta of zero
\* may be left out (width 0, a sparse run)
RunCounts == { [count |-> 1, length_size |-> 1],
               [count |-> 255, length_size |-> 1],
               [count |-> 300, length_size |-> 2],
               [count |-> 7, length_size |-> 3] }

RunDeltas == { [delta |-> 5, offset_size |-> 1],
               [delta |-> -3, offset_size |-> 1],
               [delta |-> -128, offset_size |-> 1],
               [delta |-> 128, offset_size |-> 2],
               [delta |-> -129, offset_size |-> 2],
               [delta |-> 70000, offset_size |-> 3],
               [delta |-> 0, offset_size |-> 1],
               [delta |-> 0, offset_size |-> 0] }

RunPairs == { [count |-> c.count, length_size |-> c.length_size,
               delta |-> d.delta, offset_size |-> d.offset_size] :
              c \in RunCounts, d \in RunDeltas }

RunLists == UNION { [1..n -> RunPairs] : n \in 0..MaxRuns }

\* the run list is written into an attribute, with or without the
\* terminating zero byte
EncodeDataRuns ==
    /\ pop = "pairs"
    /\ \E terminated \in BOOLEAN :
        pout' = [bytes |-> EncodeRuns(pin) \o (IF terminated THEN <<0>> ELSE <<>>),
                 runs |-> <<>>]
    /\ pop' = "encoded"
    /\ UNCHANGED pin
    /\ UNCHANGED <<rvars, vvars, svars>>

\* parse_data_runs on the bytes
DecodeDataRuns ==
    /\ pop = "encoded"
    /\ pout' = [pout EXCEPT !.runs = ParseDataRuns(pout.bytes, 0, 0)]
    /\ pop' = "decoded"
    /\ UNCHANGED pin
    /\ UNCHANGED <<rvars, vvars, svars>>

(***************************************************************************)
(* MFT records (ntfs_parser.rs).  A record image of MFT_RECORD_SIZE bytes  *)
(* is given by what an attribute walk meets in it: the first attribute     *)
(* offset of its header and the attributes that lie one behind the other   *)
(* from there, each with the fields its bytes hold; every byte behind the  *)
(* last of them is zero.  The image is the one left by apply_fixup, which  *)
(* only rewrites the last two bytes of each sector.  Time stamps are not   *)
(* modelled.                                                               *)
(***************************************************************************)
ATTRIBUTE_STANDARD_INFORMATION == 16
ATTRIBUTE_FILE_NAME == 48
ATTRIBUTE_DATA == 128
\* 0xFFFFFFFF, written as the 32-bit pattern read as a signed number
ATTRIBUTE_END == -1

\* filename namespaces
POSIX == 0
WIN32 == 1
DOS == 2
WIN32_AND_DOS == 3

\* the fields of one attribute: attr_type at +0, attr_length at +4,
\* non_resident at +8, name_length at +9, content_length at +16,
\* content_offset at +20, runs_offset at +32, real_size at +48 of a
\* non-resident attribute and at content +48 of a filename; run_bytes are the
\* bytes from runs_offset to the end of the attribute
Attribute(attr_type, attr_length) ==
    [attr_type |-> attr_type, attr_length |-> attr_length, non_resident |-> 0,
     name_length |-> 0, content_length |-> 0, content_offset |-> 24,
     name_type |-> 0, file_name |-> "", parent_ref |-> 0, real_size |-> 0,
     allocated_size |-> 0, runs_offset |-> 0, run_bytes |-> <<>>]

ZeroBytes == Attribute(0, 0)

FileNameAttribute(name_type, file_name, attr_length, real_size) ==
    [Attribute(ATTRIBUTE_FILE_NAME, attr_length) EXCEPT
        !.content_length = 66 + 2 * Len(file_name),
        !.name_type = name_type, !.file_name = file_name, !.parent_ref = 5,
        !.real_size = real_size, !.allocated_size = real_size]

ResidentData(name_length, content_length, attr_length) ==
    [Attribute(ATTRIBUTE_DATA, attr_length) EXCEPT
        !.name_length = name_length, !.content_length = content_length]

NonResidentData(name_length, real_size, runs_offset, run_bytes) ==
    [Attribute(ATTRIBUTE_DATA, IF runs_offset <= 1000 THEN runs_offset + Len(run_bytes) ELSE 72) EXCEPT
        !.non_resident = 1, !.name_length = name_length, !.real_size = real_size,
        !.allocated_size = real_size, !.runs_offset = runs_offset,
        !.run_bytes = run_bytes]

FileNameAttributes ==
    { FileNameAttribute(WIN32, "Quarterly report.docx", 136, 0),
      FileNameAttribute(DOS, "QUARTE~1.DOC", 120, 0),
      FileNameAttribute(WIN32_AND_DOS, "notes.txt", 112, 300),
      [FileNameAttribute(WIN32, "gone.txt", 112, 0) EXCEPT !.non_resident = 1] }

DataAttributes ==
    { ResidentData(0, 100, 128),
      NonResidentData(0, 8192, 64, <<17, 2, 10, 0, 0, 0, 0, 0>>),
      \* Zone.Identifier, resident
      ResidentData(15, 26, 80),
      \* a non-resident named stream of two runs
      NonResidentData(4, 20000, 72, <<17, 3, 20, 17, 2, 5, 0, 0>>),
      \* a run header whose fields would end behind the attribute
      NonResidentData(0, 4096, 64, <<17, 1, 30, 68, 1, 2, 3, 4>>),
      \* a run offset that points behind the attribute
      NonResidentData(0, 4096, 2000, <<>>) }

OtherAttributes ==
    { Attribute(ATTRIBUTE_STANDARD_INFORMATION, 96),
      Attribute(ATTRIBUTE_END, 0),
      \* an attribute that fills the record up to 6 bytes before its end
      Attribute(144, 962),
      Attribute(144, 0),
      Attribute(144, 4000) }

Attributes == FileNameAttributes \cup DataAttributes \cup OtherAttributes

FirstAttrOffsets == {56, 1016, 1018, 1020, 2000}

RecordImages ==
    [signature : BOOLEAN, first_attr_offset : FirstAttrOffsets,
     attrs : UNION { [1..n -> Attributes] : n \in 0..MaxAttrs }]

\* parse_file_name_attr on the bytes of one attribute
ParseFileNameAttr(data) ==
    LET none == [some |-> FALSE, name |-> "", parent |-> 0, size |-> 0, alloc |-> 0]
    IN  IF data.attr_length < 90 THEN none
        ELSE IF data.non_resident # 0 THEN none
        ELSE IF data.content_offset + 66 > data.attr_length THEN none
        ELSE IF data.name_type = 2 THEN none
        ELSE IF 66 + Len(data.file_name) * 2 > data.attr_length - data.content_offset
             THEN none
        ELSE [some |-> TRUE, name |-> data.file_name, parent |-> data.parent_ref,
              size |-> data.real_size, alloc |-> data.allocated_size]

\* parse_data_attr on the bytes of one attribute; the slice
\* &data[runs_offset..] is an index fault when runs_offset > data.len()
ParseDataAttr(data) ==
    LET none == [outcome |-> "none", size |-> 0, runs |-> <<>>]
    IN  IF data.attr_length < 24 THEN none
        ELSE IF data.non_resident = 0
             THEN [outcome |-> "some", size |-> data.content_length, runs |-> <<>>]
        ELSE IF data.attr_length < 64 THEN none
        ELSE IF data.runs_offset > data.attr_length
             THEN [outcome |-> "panic", size |-> 0, runs |-> <<>>]
        ELSE [outcome |-> "some", size |-> data.real_size,
              runs |-> ParseDataRuns(data.run_bytes, 0, 0)]

NoEntry ==
    [outcome |-> "none", file_name |-> "", parent_record |-> 0, file_size |-> 0,
     allocated_size |-> 0, data_runs |-> <<>>]

\* the ATTRIBUTE_FILE_NAME arm of parse_mft_record
TakeFileName(entry, data) ==
    LET parsed == ParseFileNameAttr(data)
    IN  IF parsed.some
           /\ (entry.file_name = "" \/ Len(parsed.name) > Len(entry.file_name))
        THEN [entry EXCEPT !.file_name = parsed.name,
                           !.parent_record = parsed.parent,
                           !.file_size = IF parsed.size > 0 THEN parsed.size ELSE @,
                           !.allocated_size = IF parsed.alloc > 0 THEN parsed.alloc ELSE @]
        ELSE entry

\* the ATTRIBUTE_DATA arm of parse_mft_record
TakeData(entry, data) ==
    LET parsed == ParseDataAttr(data)
    IN  IF parsed.outcome = "panic" THEN [entry EXCEPT !.outcome = "panic"]
        ELSE IF parsed.outcome = "none" THEN entry
        ELSE [entry EXCEPT
                !.file_size = IF parsed.size > @ THEN parsed.size ELSE @,
                !.data_runs = IF /\ (data.name_length = 0 \/ parsed.runs # <<>>)
                                 /\ Len(parsed.runs) > Len(@)
                              THEN parsed.runs ELSE @]

\* the attribute loop of parse_mft_record from attr_offset on, attrs[i] being
\* the attribute that starts there; reading attr_length takes the bytes
\* attr_offset + 4 .. attr_offset + 7
RECURSIVE WalkAttributes(_, _, _, _)
WalkAttributes(attrs, i, attr_offset, entry) ==
    IF ~(attr_offset < MFT_RECORD_SIZE - 4) THEN entry
    ELSE LET attr == IF i <= Len(attrs) THEN attrs[i] ELSE ZeroBytes
             taken == IF attr.attr_type = ATTRIBUTE_FILE_NAME THEN TakeFileName(entry, attr)
                      ELSE IF attr.attr_type = ATTRIBUTE_DATA THEN TakeData(entry, attr)
                      ELSE entry
         IN  IF attr.attr_type = ATTRIBUTE_END \/ attr.attr_type = 0 THEN entry
             ELSE IF ~(attr_offset + 7 < MFT_RECORD_SIZE)
                  THEN [entry EXCEPT !.outcome = "panic"]
             ELSE IF attr.attr_length = 0
                     \/ attr_offset + attr.attr_length > MFT_RECORD_SIZE THEN entry
             ELSE IF taken.outcome = "panic" THEN taken
             ELSE WalkAttributes(attrs, i + 1, attr_offset + attr.attr_length, taken)

\* parse_mft_record
ParseMftRecord(record) ==
    IF ~record.signature THEN NoEntry
    ELSE WalkAttributes(record.attrs, 1, record.first_attr_offset,
                        [NoEntry EXCEPT !.outcome = "some"])

\* extract_filename_from_record (main_filesystem.rs): the loop from offset
\* on.  The name is read at offset + content_offset + 66 of the record; when
\* it does not end inside its attribute its characters are those of the
\* bytes that follow, which is written "?"
RECURSIVE WalkFileNames(_, _, _, _)
WalkFileNames(attrs, i, offset, best_name) ==
    IF ~(offset + 16 <= MFT_RECORD_SIZE) THEN best_name
    ELSE LET attr == IF i <= Len(attrs) THEN attrs[i] ELSE ZeroBytes
             fn_start == offset + attr.content_offset
             name_end == fn_start + 66 + Len(attr.file_name) * 2
             name == IF attr.content_offset + 66 + Len(attr.file_name) * 2
                        <= attr.attr_length
                     THEN attr.file_name ELSE "?"
             found == /\ attr.attr_type = ATTRIBUTE_FILE_NAME
                      /\ attr.non_resident = 0
                      /\ fn_start + 66 < MFT_RECORD_SIZE
                      /\ name_end <= MFT_RECORD_SIZE
         IN  IF attr.attr_type = ATTRIBUTE_END THEN best_name
             ELSE IF attr.attr_length = 0
                     \/ offset + attr.attr_length > MFT_RECORD_SIZE THEN best_name
             ELSE IF /\ attr.attr_type = ATTRIBUTE_FILE_NAME
                     /\ attr.non_resident = 0
                     /\ ~(offset + 21 < MFT_RECORD_SIZE)
                  THEN [some |-> FALSE, name |-> "", panic |-> TRUE]
             ELSE IF found /\ attr.name_type # 2
                  THEN [some |-> TRUE, name |-> name, panic |-> FALSE]
             ELSE WalkFileNames(attrs, i + 1, offset + attr.attr_length,
                                IF found /\ ~best_name.some
                                THEN [some |-> TRUE, name |-> name, panic |-> FALSE]
                                ELSE best_name)

ExtractFilenameFromRecord(record) ==
    LET none == [some |-> FALSE, name |-> "", panic |-> FALSE]
    IN  IF ~record.signature THEN none
        ELSE IF record.first_attr_offset >= MFT_RECORD_SIZE THEN none
        ELSE WalkFileNames(record.attrs, 1, record.first_attr_offset, none)

\* parse_mft_record on the image
ParseRecord ==
    /\ pop = "image"
    /\ pout' = [entry |-> ParseMftRecord(pin),
                name |-> [some |-> FALSE, name |-> "", panic |-> FALSE]]
    /\ pop' = "parsed"
    /\ UNCHANGED pin
    /\ UNCHANGED <<rvars, vvars, svars>>

\* extract_filename_from_record on the same image
ExtractRecordName ==
    /\ pop = "parsed"
    /\ pout' = [pout EXCEPT !.name = ExtractFilenameFromRecord(pin)]
    /\ pop' = "named"
    /\ UNCHANGED pin
    /\ UNCHANGED <<rvars, vvars, svars>>

(***************************************************************************)
(* Path reconstruction (filesystem_recovery_engine.rs): build_full_path    *)
(* over the directory map of a scan and resolve_path_from_mft over the     *)
(* records themselves.  A directory map gives a directory's parent record, *)
(* or NoDir for a record it does not hold; record 5 is the root.           *)
(***************************************************************************)
ROOT_RECORD == 5
NoDir == -1

\* the depth limit of resolve_path_from_mft (50 to build_full_path's 100)
ResolveDepth == MaxDepth \div 2

DirRecords == (ROOT_RECORD + 1)..(ROOT_RECORD + MaxDirs)

DirMaps == [DirRecords -> DirRecords \cup {ROOT_RECORD, NoDir}]

\* "." and names that start with '$' are left out of the path
DirName(n) == IF n = ROOT_RECORD + 1 THEN "." ELSE "dir"

Lookup(dir_map, n) == IF n \in DOMAIN dir_map THEN dir_map[n] ELSE NoDir

PushName(path_parts, n) ==
    IF DirName(n) # "." THEN Append(path_parts, n) ELSE path_parts

\* an iteration of the loop that goes on whatever the depth is
BuildFullPathStepNoLimit ==
    /\ pop = "walking"
    /\ pin.walker = "dir_map"
    /\ pout.current_parent # ROOT_RECORD
    /\ Lookup(pin.dir_map, pout.current_parent) # NoDir
    /\ pout' = [current_parent |-> Lookup(pin.dir_map, pout.current_parent),
                depth |-> pout.depth + 1,
                steps |-> pout.steps + 1,
                path_parts |-> PushName(pout.path_parts, pout.current_parent)]
    /\ UNCHANGED <<pin, pop>>
    /\ UNCHANGED <<rvars, vvars, svars>>

\* build_full_path: one iteration of the loop that finds current_parent in
\* the map
BuildFullPathStep ==
    /\ pop = "walking"
    /\ pin.walker = "dir_map"
    /\ pout.current_parent # ROOT_RECORD /\ pout.depth < MaxDepth
    /\ Lookup(pin.dir_map, pout.current_parent) # NoDir
    /\ pout' = [current_parent |-> Lookup(pin.dir_map, pout.current_parent),
                depth |-> pout.depth + 1,
                steps |-> pout.steps + 1,
                path_parts |-> PushName(pout.path_parts, pout.current_parent)]
    /\ UNCHANGED <<pin, pop>>
    /\ UNCHANGED <<rvars, vvars, svars>>

\* build_full_path: the loop ends, by its condition or by the break for a
\* record that is not in the map
BuildFullPathFinish ==
    /\ pop = "walking"
    /\ pin.walker = "dir_map"
    /\ \/ ~(pout.current_parent # ROOT_RECORD /\ pout.depth < MaxDepth)
       \/ Lookup(pin.dir_map, pout.current_parent) = NoDir
    /\ pop' = "built"
    /\ UNCHANGED <<pin, pout>>
    /\ UNCHANGED <<rvars, vvars, svars>>

\* resolve_path_from_mft: one iteration of the loop whose record is read
\* and parsed; a record that is its own parent ends the loop
ResolvePathStep ==
    /\ pop = "walking"
    /\ pin.walker = "mft"
    /\ pout.current_parent # ROOT_RECORD /\ pout.depth < ResolveDepth
    /\ Lookup(pin.dir_map, pout.current_parent) # NoDir
    /\ LET parent_record == Lookup(pin.dir_map, pout.current_parent)
           path_parts == PushName(pout.path_parts, pout.current_parent)
       IN  IF parent_record = pout.current_parent
           THEN /\ pout' = [pout EXCEPT !.steps = @ + 1, !.path_parts = path_parts]
                /\ pop' = "built"
           ELSE /\ pout' = [current_parent |-> parent_record,
                            depth |-> pout.depth + 1,
                            steps |-> pout.steps + 1,
                            path_parts |-> path_parts]
                /\ pop' = pop
    /\ UNCHANGED pin
    /\ UNCHANGED <<rvars, vvars, svars>>

\* resolve_path_from_mft: the loop ends, by its condition, by a failed read
\* or by a record that does not parse
ResolvePathFinish ==
    /\ pop = "walking"
    /\ pin.walker = "mft"
    /\ \E read_ok \in BOOLEAN :
        \/ ~(pout.current_parent # ROOT_RECORD /\ pout.depth < ResolveDepth)
        \/ ~read_ok
        \/ Lookup(pin.dir_map, pout.current_parent) = NoDir
    /\ pop' = "built"
    /\ UNCHANGED <<pin, pout>>
    /\ UNCHANGED <<rvars, vvars, svars>>

(***************************************************************************)
(* carve_sector (file_carver.rs).  The buffer is given by what the two     *)
(* passes find in it at its candidate positions, one per 512 bytes: how    *)
(* the bytes there read as the start of an MP4 file, and the signatures of *)
(* the table whose header matches there, in the order of the table, each   *)
(* with what validate_signature and estimate_file_size make of it.         *)
(***************************************************************************)
\* "none": no "ftyp" at +4; "badbox": box size outside 8..64; "badbrand":
\* unknown brand; "valid": an ftyp box of a known brand
Mp4Kinds == {"none", "badbox", "badbrand", "valid"}

SignatureMatch(extension, confidence, estimated_size) ==
    [extension |-> extension, confidence |-> confidence,
     estimated_size |-> estimated_size]

\* what validate_signature and estimate_file_size can give for a header
\* that matches: a JPEG (data[2] is 0xFF) of the typical size, a PNG without
\* IHDR at +12, a PNG with IHDR whose footer lies in the first KB, a PDF
\* with a version, an Office or ZIP local header with or without an early
\* end-of-central-directory, and the two table entries of the header
\* 00 00 00 14 "ftyp"
SignatureMatches ==
    { SignatureMatch("jpg", 90, 512000),
      SignatureMatch("png", 70, 307200),
      SignatureMatch("png", 98, 512),
      SignatureMatch("pdf", 95, 1048576),
      SignatureMatch("docx", 90, 204800),
      SignatureMatch("zip", 90, 512),
      SignatureMatch("zip", 90, 4096),
      SignatureMatch("aep", 70, 1048576),
      SignatureMatch("mov", 98, 1048576) }

\* the place of a signature in the table of get_signatures, and its header
TableIndex(extension) ==
    CASE extension = "jpg" -> 1 [] extension = "png" -> 2 [] extension = "pdf" -> 3
      [] extension = "docx" -> 4 [] extension = "zip" -> 5 [] extension = "aep" -> 6
      [] OTHER -> 7

Header(extension) ==
    CASE extension \in {"docx", "zip"} -> "PK34"
      [] extension \in {"aep", "mov"} -> "ftyp"
      [] OTHER -> extension

\* the matches of one position have one header and come in table order; the
\* header with "ftyp" at +4 is the one the first pass looks for
CarvePositions ==
    { p \in [mp4 : Mp4Kinds,
             sigs : UNION { [1..n -> SignatureMatches] : n \in 0..MaxMatches }] :
        /\ \A a, b \in 1..Len(p.sigs) :
               /\ Header(p.sigs[a].extension) = Header(p.sigs[b].extension)
               /\ a < b => TableIndex(p.sigs[a].extension) < TableIndex(p.sigs[b].extension)
        /\ \A a \in 1..Len(p.sigs) :
               Header(p.sigs[a].extension) = "ftyp" <=> p.mp4 # "none" }

NoMatch == [mp4 |-> "none", sigs |-> <<>>]

\* a buffer of MaxPositions * 512 bytes, or one that ends before its 32nd
\* byte and so holds its first position only
CarveLengths == {8, 10, MaxPositions * 512}

CarveBuffers ==
    { b \in [len : CarveLengths, sector_offset : {0, 8},
             data : [1..MaxPositions -> CarvePositions]] :
        b.len < 32 => /\ b.data[1].mp4 = "none"
                      /\ \A p \in 2..MaxPositions : b.data[p] = NoMatch }

ByteOffset(p) == (p - 1) * 512

CarvedFile(sector_offset, byte_offset, extension, confidence, estimated_size) ==
    [sector_offset |-> sector_offset, byte_offset |-> byte_offset,
     extension |-> extension, confidence |-> confidence,
     estimated_size |-> estimated_size]

\* the signatures of one position, taken without a look at found_positions
RECURSIVE TakeSignaturesNoLookup(_, _, _, _)
TakeSignaturesNoLookup(sigs, k, byte_offset, out) ==
    IF k > Len(sigs) THEN out
    ELSE LET sig == sigs[k]
             global_offset == pin.sector_offset * 512 + byte_offset
         IN  IF sig.confidence >= 75 /\ ~(sig.estimated_size < 1024)
             THEN TakeSignaturesNoLookup(sigs, k + 1, byte_offset,
                      [out EXCEPT
                         !.found_positions = @ \cup {global_offset},
                         !.carved = Append(@, CarvedFile(pin.sector_offset, byte_offset,
                                                         sig.extension, sig.confidence,
                                                         sig.estimated_size))])
             ELSE TakeSignaturesNoLookup(sigs, k + 1, byte_offset, out)

\* the loop over the matching signatures of one position, from the k-th on
RECURSIVE TakeSignatures(_, _, _, _)
TakeSignatures(sigs, k, byte_offset, out) ==
    IF k > Len(sigs) THEN out
    ELSE LET sig == sigs[k]
             global_offset == pin.sector_offset * 512 + byte_offset
         IN  IF global_offset \in out.found_positions
             THEN TakeSignatures(sigs, k + 1, byte_offset, out)
             ELSE IF sig.confidence >= 75 /\ ~(sig.estimated_size < 1024)
             THEN TakeSignatures(sigs, k + 1, byte_offset,
                      [out EXCEPT
                         !.found_positions = @ \cup {global_offset},
                         !.carved = Append(@, CarvedFile(pin.sector_offset, byte_offset,
                                                         sig.extension, sig.confidence,
                                                         sig.estimated_size))])
             ELSE TakeSignatures(sigs, k + 1, byte_offset, out)

\* carve_sector on a buffer of less than 32 bytes returns at once
CarveTooShort ==
    /\ pop = "mp4"
    /\ pin.len < 32
    /\ pop' = "carved"
    /\ UNCHANGED <<pin, pout>>
    /\ UNCHANGED <<rvars, vvars, svars>>

\* the first pass at one position: "ftyp" with a valid box size and brand
CarveMp4At ==
    /\ pop = "mp4"
    /\ ~(pin.len < 32)
    /\ pout.i <= MaxPositions
    /\ LET file_start == ByteOffset(pout.i)
           global_offset == pin.sector_offset * 512 + file_start
       IN  pout' = IF /\ pin.data[pout.i].mp4 = "valid"
                      /\ global_offset \notin pout.found_positions
                   THEN [i |-> pout.i + 1,
                         found_positions |-> pout.found_positions \cup {global_offset},
                         carved |-> Append(pout.carved,
                                           CarvedFile(pin.sector_offset, file_start,
                                                      "mp4", 95, 0))]
                   ELSE [pout EXCEPT !.i = @ + 1]
    /\ UNCHANGED <<pin, pop>>
    /\ UNCHANGED <<rvars, vvars, svars>>

\* the first pass is through, the second starts at the head of the buffer
CarveMp4Done ==
    /\ pop = "mp4"
    /\ ~(pin.len < 32)
    /\ pout.i > MaxPositions
    /\ pout' = [pout EXCEPT !.i = 1]
    /\ pop' = "signatures"
    /\ UNCHANGED pin
    /\ UNCHANGED <<rvars, vvars, svars>>

\* the second pass at one position
CarveSignaturesAt ==
    /\ pop = "signatures"
    /\ pout.i <= MaxPositions
    /\ pout' = [TakeSignatures(pin.data[pout.i].sigs, 1, ByteOffset(pout.i), pout)
                   EXCEPT !.i = pout.i + 1]
    /\ UNCHANGED <<pin, pop>>
    /\ UNCHANGED <<rvars, vvars, svars>>

\* carve_sector returns carved
CarveReturn ==
    /\ pop = "signatures"
    /\ pout.i > MaxPositions
    /\ pop' = "carved"
    /\ UNCHANGED <<pin, pout>>
    /\ UNCHANGED <<rvars, vvars, svars>>

(***************************************************************************)
(* carve_file_from_volume (main_filesystem.rs).  The volume is read in     *)
(* chunks; a chunk is unreadable or holds, in search order, the places     *)
(* where the header of the wanted format is found.  What is found there is *)
(*   none    - read_carved_file gives nothing                              *)
(*   invalid - a file below min_file_size or one that fails                *)
(*             validate_carved_file                                        *)
(*   ok      - a file that passes both, with its count of matched keywords *)
(***************************************************************************)
Candidate(carved, score) == [carved |-> carved, score |-> score]

\* keywords is keywords.len()
Candidates(keywords) ==
    {Candidate("none", 0), Candidate("invalid", 0)}
        \cup {Candidate("ok", score) : score \in 0..keywords}

Chunks(keywords) ==
    {[readable |-> FALSE, hits |-> <<>>]}
        \cup [readable : {TRUE},
              hits : UNION { [1..n -> Candidates(keywords)] : n \in 0..MaxHits }]

NoMatchYet == <<0, 0>>

\* the search loop over one chunk from its k-th header on; a candidate is
\* named by its chunk and its place in it.  stop is the break that ends the
\* inner loop
RECURSIVE ExamineCandidates(_, _, _, _)
ExamineCandidates(hits, k, c, st) ==
    IF k > Len(hits) THEN st
    ELSE LET cand == hits[k]
             found == [st EXCEPT !.candidates_found = @ + 1]
             better == [found EXCEPT
                          !.examined = Append(@, [id |-> <<c, k>>, score |-> cand.score]),
                          !.best_match =
                              IF pin.keywords > 0
                              THEN (IF cand.score > st.best_keyword_score THEN <<c, k>> ELSE @)
                              ELSE (IF @ = NoMatchYet THEN <<c, k>> ELSE @),
                          !.best_keyword_score =
                              IF pin.keywords > 0 /\ cand.score > @ THEN cand.score ELSE @]
         IN  IF cand.carved = "invalid"
             THEN ExamineCandidates(hits, k + 1, c, found)
             ELSE IF cand.carved = "none"
             THEN (IF found.candidates_found >= MaxCandidates THEN found
                   ELSE ExamineCandidates(hits, k + 1, c, found))
             ELSE IF pin.keywords > 0 /\ cand.score > st.best_keyword_score
                     /\ cand.score = pin.keywords
             THEN better
             ELSE IF better.candidates_found >= MaxCandidates THEN better
             ELSE ExamineCandidates(hits, k + 1, c, better)

\* one iteration of the scan loop: a chunk is read and searched
VolumeCarveChunk ==
    /\ pop = "scanning"
    /\ pout.scanned_chunks < MaxScanChunks /\ pout.candidates_found < MaxCandidates
    /\ LET c == pout.scanned_chunks + 1
           counted == [pout EXCEPT !.after_cancel = IF cancelled THEN @ + 1 ELSE @]
           searched == ExamineCandidates(pin.chunks[c].hits, 1, c, counted)
       IN  IF ~pin.chunks[c].readable
           THEN /\ pout' = [counted EXCEPT !.scanned_chunks = @ + 1]
                /\ pop' = pop
           ELSE IF searched.best_keyword_score = pin.keywords /\ pin.keywords > 0
           THEN /\ pout' = searched
                /\ pop' = "scanned"
           ELSE /\ pout' = [searched EXCEPT !.scanned_chunks = @ + 1]
                /\ pop' = pop
    /\ UNCHANGED pin
    /\ UNCHANGED <<rvars, vvars, svars>>

\* the scan loop ends at its size cap or its candidate cap
VolumeCarveExit ==
    /\ pop = "scanning"
    /\ ~(pout.scanned_chunks < MaxScanChunks /\ pout.candidates_found < MaxCandidates)
    /\ pop' = "scanned"
    /\ UNCHANGED <<pin, pout>>
    /\ UNCHANGED <<rvars, vvars, svars>>

\* the best match, if there is one, is written to the destination
VolumeCarveWrite ==
    /\ pop = "scanned"
    /\ \E write_ok \in BOOLEAN :
        pout' = [pout EXCEPT
                    !.written = IF write_ok THEN pout.best_match ELSE NoMatchYet,
                    !.success = write_ok /\ pout.best_match # NoMatchYet]
    /\ pop' = "done"
    /\ UNCHANGED pin
    /\ UNCHANGED <<rvars, vvars, svars>>

(***************************************************************************)
(* Conversion of what a scan found into recoverable files                  *)
(* (filesystem_recovery_engine.rs): mft_entry_to_recoverable_with_path for *)
(* the parsed entries of the MFT walk, and the body of the loop of         *)
(* scan_mft over the deletions of the USN journal.  File and directory     *)
(* names are taken from a table that has one name for each way the rules   *)
(* tell names apart; a path is the sequence of its components below the    *)
(* drive.                                                                  *)
(***************************************************************************)
FileNames == {"", "$MFT", "~draft.doc", "setup.log", "trace.log.txt", "report.docx", "photo.jpg", "my$Recycle.Bin.txt"}

\* a size on each side of every threshold of the recovery chances
FileSizes == {0, 700, 4096, 102400, 1048576, 10485760, 10485761}

StartsWithDollar(name) == name \in {"$MFT", "$Recycle.Bin"}

\* the text after the last '.', in lower case
Extension(name) ==
    CASE name = "~draft.doc" -> "doc"
      [] name = "setup.log" -> "log"
      [] name \in {"trace.log.txt", "my$Recycle.Bin.txt"} -> "txt"
      [] name = "report.docx" -> "docx"
      [] name = "photo.jpg" -> "jpg"
      [] OTHER -> ""

FilteredExtension(extension) ==
    extension \in {"lnk", "url", "ini", "tmp", "temp", "log", "bak", "thumbs"}

\* to_lowercase().contains("$recycle.bin") on one component of a path
ContainsRecycleBin(name) == name \in {"$Recycle.Bin", "my$Recycle.Bin.txt"}

\* the directories of the volume: the parent record and the name of each
EmitDirs ==
    (6 :> [parent |-> ROOT_RECORD, name |-> "$Recycle.Bin"]) @@
    (7 :> [parent |-> 6, name |-> "S-1-5-21"]) @@
    (8 :> [parent |-> ROOT_RECORD, name |-> "Docs"]) @@
    (9 :> [parent |-> 8, name |-> "Temp"])

\* the directory maps a walk can have built: the directories it parsed
EmitDirMaps == {[n \in s |-> EmitDirs[n]] : s \in SUBSET (DOMAIN EmitDirs)}

\* the parent of an entry: the root, a directory, or a record that holds none
EmitParents == {ROOT_RECORD} \cup DOMAIN EmitDirs \cup {10}

RECURSIVE PathParts(_, _, _, _)
PathParts(dir_map, current_parent, depth, path_parts) ==
    IF current_parent # ROOT_RECORD /\ depth < MaxDepth /\ current_parent \in DOMAIN dir_map
    THEN LET dir_name == dir_map[current_parent].name
         IN  PathParts(dir_map, dir_map[current_parent].parent, depth + 1,
                       IF ~StartsWithDollar(dir_name) /\ dir_name # "" /\ dir_name # "."
                       THEN Append(path_parts, dir_name) ELSE path_parts)
    ELSE path_parts

\* build_full_path: the names from the root down to the file
BuildFullPath(parent_record, file_name, dir_map) ==
    LET path_parts == PathParts(dir_map, parent_record, 0, <<file_name>>)
    IN  [i \in 1..Len(path_parts) |-> path_parts[Len(path_parts) + 1 - i]]

\* is_temp_file, on the names of the table and the directories of the volume
IsTempFile(name, path) ==
    \/ name = "~draft.doc"
    \/ \E i \in 1..(Len(path) - 1) : path[i] = "Temp"

NoRecoverable == [source |-> "none"]

MftChance(entry) ==
    IF ~entry.is_deleted THEN 95
    ELSE IF entry.data_runs = <<>>
         THEN (IF entry.file_size <= 700 THEN 50
               ELSE IF entry.file_size <= 100 * 1024 THEN 15 ELSE 5)
         ELSE (IF entry.file_size <= 4096 THEN 60
               ELSE IF entry.file_size <= 100 * 1024 THEN 45
               ELSE IF entry.file_size <= 1024 * 1024 THEN 30 ELSE 20)

\* mft_entry_to_recoverable_with_path
MftEntryToRecoverable(entry, dir_map) ==
    LET full_path == BuildFullPath(entry.parent_record, entry.file_name, dir_map)
        is_recycle_bin == \E i \in 1..Len(full_path) : ContainsRecycleBin(full_path[i])
    IN  IF entry.file_name = "" THEN NoRecoverable
        ELSE IF entry.is_directory \/ StartsWithDollar(entry.file_name) THEN NoRecoverable
        ELSE IF FilteredExtension(Extension(entry.file_name)) THEN NoRecoverable
        ELSE IF entry.file_size = 0 THEN NoRecoverable
        ELSE IF entry.is_deleted /\ entry.data_runs = <<>> /\ entry.file_size = 0 THEN NoRecoverable
        ELSE IF IsTempFile(entry.file_name, full_path) THEN NoRecoverable
        ELSE IF entry.is_deleted /\ entry.data_runs = <<>> /\ entry.file_size > 10 * 1024 * 1024 THEN NoRecoverable
        ELSE [source |-> "mft_filesystem",
              name |-> entry.file_name,
              path |-> full_path,
              size |-> entry.file_size,
              is_deleted |-> entry.is_deleted \/ is_recycle_bin,
              recovery_chance |-> IF is_recycle_bin /\ ~entry.is_deleted THEN 95 ELSE MftChance(entry),
              data_runs |-> entry.data_runs]

\* the parsed entries of a walk
MftEntries ==
    [file_name : FileNames, is_directory : BOOLEAN, is_deleted : BOOLEAN,
     file_size : FileSizes, data_runs : {<<>>, <<Run(4, 1)>>},
     parent_record : EmitParents]

\* what reading the record of a USN deletion again gives: a failed read, a
\* record that does not parse, or the entry the record holds now
Rereads ==
    {[kind |-> "read_error"], [kind |-> "parse_failed"]} \cup
    [kind : {"parsed"}, file_name : {"report.docx", "photo.jpg", "trace.log.txt"},
     is_deleted : BOOLEAN, file_size : FileSizes,
     data_runs : {<<>>, <<Run(4, 1)>>}]

\* the size, the chance and the runs that the record read again gives to a
\* USN deletion
RereadOutcome(usn_name, reread) ==
    IF reread.kind = "parsed"
    THEN IF reread.is_deleted \/ reread.file_name = usn_name
         THEN [file_size |-> reread.file_size,
               recovery_chance |-> IF reread.data_runs = <<>> THEN 10 ELSE 45,
               data_runs |-> reread.data_runs]
         ELSE [file_size |-> 0, recovery_chance |-> 5, data_runs |-> <<>>]
    ELSE [file_size |-> 0,
          recovery_chance |-> IF reread.kind = "parse_failed" THEN 10 ELSE 5,
          data_runs |-> <<>>]

\* the body of the loop over the USN deletions, for one deletion
UsnToRecoverable(usn) ==
    LET name == usn.file_name
        from_map == BuildFullPath(usn.parent_mft_record, name, usn.dir_map)
        full_path == IF from_map = <<name>> /\ usn.parent_mft_record # ROOT_RECORD
                     THEN Append(usn.resolved, name) ELSE from_map
        found == RereadOutcome(name, usn.reread)
        is_likely_system == found.file_size = 0 /\ name \in {"setup.log", "trace.log.txt"}
    IN  IF usn.existing_deleted \/ usn.seen THEN NoRecoverable
        ELSE IF StartsWithDollar(name) \/ name = "~draft.doc" THEN NoRecoverable
        ELSE IF IsTempFile(name, full_path) THEN NoRecoverable
        ELSE IF FilteredExtension(Extension(name)) THEN NoRecoverable
        ELSE IF is_likely_system THEN NoRecoverable
        ELSE [source |-> "USN",
              name |-> name,
              path |-> full_path,
              size |-> found.file_size,
              is_deleted |-> TRUE,
              recovery_chance |-> IF found.file_size = 0 THEN 3
                                  ELSE IF found.data_runs = <<>> THEN 8
                                  ELSE found.recovery_chance,
              data_runs |-> found.data_runs]

\* the USN deletions of a scan (scan_usn_journal keeps no record without a
\* name), each with what the scan knows when it
\* comes to it; resolved is the directories resolve_path_from_mft reads from
\* the records when the map gives none
UsnDeletedFiles ==
    {[file_name |-> name, parent_mft_record |-> parent, dir_map |-> EmitDirs,
      resolved |-> resolved, existing_deleted |-> existing, seen |-> seen,
      reread |-> reread] :
        name \in FileNames \ {""}, parent \in {ROOT_RECORD, 8, 9, 10},
        resolved \in {<<"Docs">>, <<"Temp">>, <<>>},
        existing \in BOOLEAN, seen \in BOOLEAN, reread \in Rereads}

\* mft_entry_to_recoverable_with_path on a parsed entry
EmitMftEntry ==
    /\ pop = "entry"
    /\ pout' = MftEntryToRecoverable(pin.entry, pin.dir_map)
    /\ pop' = "emitted"
    /\ UNCHANGED pin
    /\ UNCHANGED <<rvars, vvars, svars>>

\* one iteration of the loop over the USN deletions
EmitUsnEntry ==
    /\ pop = "usn"
    /\ pout' = UsnToRecoverable(pin.usn)
    /\ pop' = "emitted"
    /\ UNCHANGED pin
    /\ UNCHANGED <<rvars, vvars, svars>>

(***************************************************************************)
(* The read loop of scan_usn_journal (filesystem_disk_reader.rs).  One     *)
(* response of FSCTL_READ_USN_JOURNAL is a failure, fewer than 8 bytes, or *)
(* a buffer that starts with the next cursor and holds some records; the   *)
(* cursors are 64-bit signed numbers, here the numbers from MinUsn to      *)
(* MaxUsn.                                                                 *)
(***************************************************************************)
MinUsn == -1

UsnResponses ==
    {[kind |-> "failed"], [kind |-> "short"]} \cup
    [kind : {"batch"}, next_usn : MinUsn..MaxUsn, records : 0..MaxBatch]

UsnStop(why, total_records_read) ==
    /\ pout' = [pout EXCEPT !.last = why, !.total_records_read = total_records_read]
    /\ pop' = "done"

\* an iteration that goes on when the next cursor equals the start cursor
UsnReadBatchNoProgress ==
    /\ pop = "reading"
    /\ \E response \in UsnResponses :
        IF response.kind = "failed" THEN UsnStop("failed", pout.total_records_read)
        ELSE IF response.kind = "short" THEN UsnStop("short", pout.total_records_read)
        ELSE LET total_records_read == pout.total_records_read + response.records
             IN  IF response.next_usn < pout.start_usn
                 THEN UsnStop("stale", total_records_read)
                 ELSE /\ pout' = [start_usn |-> response.next_usn,
                                  prev_usn |-> pout.start_usn,
                                  iterations |-> Min(pout.iterations + 1, MaxUsn - MinUsn + 1),
                                  total_records_read |-> total_records_read,
                                  last |-> IF total_records_read > UsnRecordCap
                                           THEN "cap" ELSE "more"]
                      /\ pop' = IF total_records_read > UsnRecordCap
                                THEN "done" ELSE "reading"
    /\ UNCHANGED pin
    /\ UNCHANGED <<rvars, vvars, svars>>

\* scan_usn_journal: one iteration of the read loop
UsnReadBatch ==
    /\ pop = "reading"
    /\ \E response \in UsnResponses :
        IF response.kind = "failed" THEN UsnStop("failed", pout.total_records_read)
        ELSE IF response.kind = "short" THEN UsnStop("short", pout.total_records_read)
        ELSE LET total_records_read == pout.total_records_read + response.records
             IN  IF response.next_usn <= pout.start_usn
                 THEN UsnStop("stale", total_records_read)
                 ELSE /\ pout' = [start_usn |-> response.next_usn,
                                  prev_usn |-> pout.start_usn,
                                  iterations |-> Min(pout.iterations + 1, MaxUsn - MinUsn + 1),
                                  total_records_read |-> total_records_read,
                                  last |-> IF total_records_read > UsnRecordCap
                                           THEN "cap" ELSE "more"]
                      /\ pop' = IF total_records_read > UsnRecordCap
                                THEN "done" ELSE "reading"
    /\ UNCHANGED pin
    /\ UNCHANGED <<rvars, vvars, svars>>

(***************************************************************************)
(* Specifications                                                          *)
(***************************************************************************)
InitReader ==
    /\ disk \in Disks
    /\ reader = NewReader
    /\ rpc = "idle"
    /\ rreq = 0
    /\ rtrace = <<>>
    /\ rresult = NoResult
    /\ ioctl_log = NoIoctl
    /\ RecoverIdle
    /\ ScanIdle
    /\ PureIdle

NextReader ==
    \/ \E n \in 0..MaxRecordNumber : ReadMftRecord(n)
    \/ Method1
    \/ Method2
    \/ Method3
    \/ Method4
    \/ OpenMft

SpecReader == InitReader /\ [][NextReader]_vars

ReaderIdle ==
    /\ disk = CHOOSE d \in Disks : TRUE
    /\ reader = NewReader
    /\ rpc = "idle"
    /\ rreq = 0
    /\ rtrace = <<>>
    /\ rresult = NoResult
    /\ ioctl_log = NoIoctl

\* one recovery request: which of the two recover entry points is called, and
\* the descriptor it is given
InitRecover ==
    /\ ReaderIdle
    /\ pipeline \in {"engine", "mainfs"}
    /\ file \in RecoverFiles
    \* is_deleted is a plain bool in RecoverableFileFS
    /\ pipeline = "engine" => file.is_deleted # "unset"
    /\ vpc = "copy"
    /\ vtrace = <<>>
    /\ vresult = NoRecovery
    /\ dest = NoFile
    /\ ScanIdle
    /\ PureIdle

NextRecover ==
    \/ EngineCopy
    \/ EngineCluster
    \/ EngineResident
    \/ MainCopy
    \/ MainCluster
    \/ MainRecycle
    \/ MainVss
    \/ MainResident
    \/ MainCarve

SpecRecover == InitRecover /\ [][NextRecover]_vars

\* one engine, freshly constructed, over one MFT
InitScan ==
    /\ ReaderIdle
    /\ RecoverIdle
    /\ scanner \in {"engine", "extended"}
    /\ mft \in Mfts
    /\ cancelled = FALSE
    /\ spc = "idle"
    /\ scan = NoScan
    /\ sresult = NoScanResult
    /\ scans = 0
    /\ PureIdle

NextScan ==
    \/ ScanStart
    \/ EngineScanStep
    \/ EngineScanFinish
    \/ ExtendedScanStep
    \/ ExtendedScanFinish
    \/ Cancel

SpecScan == InitScan /\ [][NextScan]_vars

\* one run list to encode and decode
InitRuns ==
    /\ ReaderIdle
    /\ RecoverIdle
    /\ ScanIdle
    /\ pin \in RunLists
    /\ pout = [bytes |-> <<>>, runs |-> <<>>]
    /\ pop = "pairs"

NextRuns ==
    \/ EncodeDataRuns
    \/ DecodeDataRuns

SpecRuns == InitRuns /\ [][NextRuns]_vars

\* one record image to parse
InitParse ==
    /\ ReaderIdle
    /\ RecoverIdle
    /\ ScanIdle
    /\ pin \in RecordImages
    /\ pout = [entry |-> NoEntry, name |-> [some |-> FALSE, name |-> "", panic |-> FALSE]]
    /\ pop = "image"

NextParse ==
    \/ ParseRecord
    \/ ExtractRecordName

SpecParse == InitParse /\ [][NextParse]_vars

\* one path to build: the map, the walk that is used and the parent record
\* of the file
InitPath ==
    /\ ReaderIdle
    /\ RecoverIdle
    /\ ScanIdle
    /\ pin \in [walker : {"dir_map", "mft"}, dir_map : DirMaps,
                parent_record : DirRecords \cup {ROOT_RECORD, ROOT_RECORD + MaxDirs + 1}]
    /\ pout = [current_parent |-> pin.parent_record, depth |-> 0, steps |-> 0,
               path_parts |-> <<>>]
    /\ pop = "walking"

NextPath ==
    \/ BuildFullPathStep
    \/ BuildFullPathFinish
    \/ ResolvePathStep
    \/ ResolvePathFinish

SpecPath == InitPath /\ [][NextPath]_vars

\* one call of carve_sector
InitCarve ==
    /\ ReaderIdle
    /\ RecoverIdle
    /\ ScanIdle
    /\ pin \in CarveBuffers
    /\ pout = [i |-> 1, found_positions |-> {}, carved |-> <<>>]
    /\ pop = "mp4"

NextCarve ==
    \/ CarveTooShort
    \/ CarveMp4At
    \/ CarveMp4Done
    \/ CarveSignaturesAt
    \/ CarveReturn

SpecCarve == InitCarve /\ [][NextCarve]_vars

\* one call of carve_file_from_volume for a supported extension, the volume
\* opened, on an engine whose cancel flag is clear
InitVolumeCarve ==
    /\ ReaderIdle
    /\ RecoverIdle
    /\ ScanIdle
    /\ \E keywords \in {0, 2} :
        pin \in [keywords : {keywords},
                 chunks : [1..MaxScanChunks -> Chunks(keywords)]]
    /\ pout = [scanned_chunks |-> 0, candidates_found |-> 0, best_match |-> NoMatchYet,
               best_keyword_score |-> 0, examined |-> <<>>, after_cancel |-> 0,
               written |-> NoMatchYet, success |-> FALSE]
    /\ pop = "scanning"

NextVolumeCarve ==
    \/ VolumeCarveChunk
    \/ VolumeCarveExit
    \/ VolumeCarveWrite
    \/ Cancel

SpecVolumeCarve == InitVolumeCarve /\ [][NextVolumeCarve]_vars

\* one parsed entry of a walk with the directory map of the walk, or one
\* deletion of the USN journal
InitEmit ==
    /\ ReaderIdle
    /\ RecoverIdle
    /\ ScanIdle
    /\ \/ /\ pop = "entry"
          /\ \E entry \in MftEntries, dir_map \in EmitDirMaps :
                pin = [entry |-> entry, dir_map |-> dir_map]
       \/ /\ pop = "usn"
          /\ \E usn \in UsnDeletedFiles : pin = [usn |-> usn]
    /\ pout = NoRecoverable

NextEmit ==
    \/ EmitMftEntry
    \/ EmitUsnEntry

SpecEmit == InitEmit /\ [][NextEmit]_vars

\* the journal queried: the loop starts at the first cursor of the journal
InitUsn ==
    /\ ReaderIdle
    /\ RecoverIdle
    /\ ScanIdle
    /\ pin \in [first_usn : MinUsn..MaxUsn]
    /\ pout = [start_usn |-> pin.first_usn, prev_usn |-> pin.first_usn,
               iterations |-> 0, total_records_read |-> 0, last |-> "none"]
    /\ pop = "reading"

NextUsn == UsnReadBatch

\* the loop has no wait in it: while it is not over, it makes its next
\* iteration
SpecUsn == InitUsn /\ [][NextUsn]_vars /\ WF_vars(NextUsn)


(***************************************************************************)
(* Properties of the MFT reader                                            *)
(***************************************************************************)
Last(s) == s[Len(s)]

\* the ioctl answered with a complete record
CompleteResponse(resp) ==
    /\ resp.result # 0
    /\ resp.bytes_returned >= IOCTL_HEADER_SIZE + resp.record_length

\* C1: whenever the MFT-record ioctl returns a file reference whose low 48
\* bits differ from the requested record number N, the ioctl strategy
\* reports a failure (the freed-slot failure when the answer was complete)
\* and read_mft_record never returns ioctl bytes of another record as N
C1_FreedSlotGuard ==
    /\ (/\ ioctl_log.req >= 0
        /\ ioctl_log.resp.result # 0
        /\ Low48(ioctl_log.resp.ref) # ioctl_log.req)
       => /\ ~ioctl_log.out.ok
          /\ CompleteResponse(ioctl_log.resp) => ioctl_log.out.err = "FreedSlot"
    /\ (rpc = "done" /\ rresult.ok /\ rresult.img.src = "ioctl")
       => rresult.img.at = rreq

\* a complete answer for another record was refused and the call went on
C1_Witness ==
    /\ rpc = "m3"
    /\ ioctl_log.req = rreq
    /\ CompleteResponse(ioctl_log.resp)
    /\ ioctl_log.resp.ref.seq > 0
    /\ Low48(ioctl_log.resp.ref) = rreq + 1
    /\ ioctl_log.out.err = "FreedSlot"

\* strategy k was tried earlier in the call and failed, or it is the $MFT
\* file whose one-shot open failed before
FailedEarlier(i, k) ==
    \/ \E j \in 1..(i - 1) : rtrace[j].m = k /\ ~rtrace[j].ok
    \/ k = 1 /\ ~reader.mft_file_handle /\ reader.mft_file_open_attempted

ImageSource(m) ==
    IF m = 1 THEN "mftfile" ELSE IF m = 2 THEN "ioctl" ELSE "volume"

\* C7: within one read_mft_record call the strategies are attempted in the
\* order $MFT file, ioctl, extent map, naive offset; a strategy is attempted
\* only if every earlier one failed in the call, and the first success is
\* returned without attempting a later strategy
C7_ChainOrder ==
    /\ \A i \in 1..Len(rtrace) :
          /\ \A k \in 1..(rtrace[i].m - 1) : FailedEarlier(i, k)
          /\ i < Len(rtrace) => ~rtrace[i].ok /\ rtrace[i].m < rtrace[i + 1].m
    /\ rpc \in {"m2", "m3", "m4"} => \A i \in 1..Len(rtrace) : ~rtrace[i].ok
    /\ (rpc = "done" /\ rresult.ok)
       => /\ Len(rtrace) > 0
          /\ Last(rtrace).ok
          /\ rresult.img.src = ImageSource(Last(rtrace).m)
    /\ (rpc = "done" /\ ~rresult.ok)
       => /\ Len(rtrace) > 0
          /\ Last(rtrace).m = 4
          /\ \A i \in 1..Len(rtrace) : ~rtrace[i].ok

\* the first three strategies failed and the fourth returned the record
C7_Witness ==
    /\ rpc = "done"
    /\ rresult.ok
    /\ Len(rtrace) = 4
    /\ rtrace[4] = Attempt(4, TRUE)

\* C8: read_mft_record(N) for N beyond the MFT's extent reports a failure
\* and never returns a byte image as record N
C8_OutOfRange ==
    (rpc = "done" /\ BeyondMft(disk, rreq)) => ~rresult.ok

(***************************************************************************)
(* Properties of the recovery pipelines                                    *)
(***************************************************************************)
Attempted(strategy) == \E i \in 1..Len(vtrace) : vtrace[i].s = strategy

\* C2: in cluster reassembly, bytes the integrity validator rejects are never
\* written: a destination written by cluster reassembly holds bytes that
\* detect_corruption accepts for the descriptor's extension, and a rejection
\* leaves no destination and a failure result.
C2_OnlyAcceptedBytesWritten ==
    /\ dest.by = "cluster" =>
           DetectCorruption(dest.data, Lower(file.extension)) = NoCorruption
    /\ (vtrace # <<>> /\ Last(vtrace) = Tried("cluster", "corrupt")) =>
           (dest = NoFile /\ vresult = Failed)

\* C3: for a descriptor marked deleted whose path is not in the Recycle Bin,
\* the live copy from the descriptor's path is never attempted.
C3_NoLiveCopyOfDeleted ==
    (IsDeleted(file) /\ ~file.in_recycle) => ~Attempted("copy")

SpecRank(strategy) ==
    CASE strategy = "copy" -> 1
      [] strategy = "cluster" -> 2
      [] strategy = "resident" -> 3
      [] strategy = "recycle" -> 4
      [] strategy = "vss" -> 5
      [] strategy = "carve" -> 6

\* strategy order of recover_deleted_file_fs and recover_file
CodeRank(strategy) ==
    CASE strategy = "copy" -> 1
      [] strategy = "cluster" -> 2
      [] strategy = "recycle" -> 3
      [] strategy = "vss" -> 4
      [] strategy = "resident" -> 5
      [] strategy = "carve" -> 6

\* C6 as stated: the attempts of one recovery follow the order live copy,
\* cluster reassembly, MFT-resident extraction, Recycle Bin, Shadow Copy,
\* carving, and nothing is attempted after a success.
C6_Original ==
    \A i, j \in 1..Len(vtrace) :
        i < j => /\ SpecRank(vtrace[i].s) < SpecRank(vtrace[j].s)
                 /\ vtrace[i].out # "ok"

\* C6: the attempts of one recovery follow the order live copy, cluster
\* reassembly, Recycle Bin, Shadow Copy, MFT-resident extraction, carving,
\* and nothing is attempted after a success (a shadow copy of zero bytes is
\* no success).
C6_StrategyOrder ==
    \A i, j \in 1..Len(vtrace) :
        i < j => /\ CodeRank(vtrace[i].s) < CodeRank(vtrace[j].s)
                 /\ vtrace[i].out # "ok"

\* all four fallbacks of a descriptor without data runs were tried, the
\* resident extraction after Recycle Bin and Shadow Copy
C6_Witness ==
    /\ pipeline = "mainfs"
    /\ Len(vtrace) = 4
    /\ vtrace[1].s = "recycle"
    /\ vtrace[2].s = "vss"
    /\ vtrace[3].s = "resident"
    /\ vtrace[4] = Tried("carve", "ok")
    /\ vpc = "done"

\* C9: content written by MFT-resident extraction comes from a record whose
\* filename (compared without case, when the record has one) is the
\* descriptor's filename.
C9_ResidentNameChecked ==
    dest.by = "resident" =>
        \/ dest.record_name = ""
        \/ Lower(dest.record_name) = Lower(file.name)

\* C10: bytes reassembled for a PDF descriptor that start with %PDF- and hold
\* no %%EOF / startxref in their last 2 KB are never written to the
\* destination and never reported as a success.
C10_PdfWithoutTrailerRejected ==
    (/\ Lower(file.extension) = "pdf"
     /\ dest.by = "cluster"
     /\ StartsWithPdf(dest.data))
        => HasPdfTrailer(dest.data)

(***************************************************************************)
(* Properties of the scans                                                 *)
(***************************************************************************)
\* C4: a scan that left its loop at a cancellation check returns a cancelled
\* status and none of the entries it had accumulated.
C4_CancelDiscardsPartial ==
    (spc = "done" /\ scan.exited_on_cancel) =>
        /\ sresult.status = "cancelled"
        /\ Range(sresult.entries) \cap Range(scan.parsed_entries) = {}

Deleted(entries) == Filter(entries, {e \in Range(entries) : e.is_deleted})

\* C11: the result of scan_mft holds at most MAX_DELETED deleted entries and
\* at most MAX_TOTAL entries.
C11_OutputCap ==
    (scanner = "engine" /\ sresult.status = "ok") =>
        /\ Len(Deleted(sresult.entries)) <= MaxDeleted
        /\ Len(sresult.entries) <= MaxTotal

\* position of an entry in a list without duplicates
Pos(entries, e) == CHOOSE i \in 1..Len(entries) : entries[i] = e

Capped ==
    /\ scanner = "engine"
    /\ spc = "done"
    /\ sresult.status = "ok"
    /\ Len(scan.mft_entries) > MaxTotal

\* C12 as stated: when the scan produced more than MAX_TOTAL entries, any two
\* entries of the result stand in the order the final sort gave them.
C12_Original ==
    Capped =>
        \A i, j \in 1..Len(sresult.entries) :
            i < j => Pos(scan.mft_entries, sresult.entries[i])
                         < Pos(scan.mft_entries, sresult.entries[j])

\* C12: when the scan produced more than MAX_TOTAL entries, the result holds
\* its deleted entries ahead of its active ones; two active entries stand in
\* the order the final sort gave them, and so do two deleted entries unless
\* more than MAX_DELETED deleted entries were produced, in which case the one
\* with the higher recovery chance stands first and the sort order decides
\* between equal chances.
C12_CapOrder ==
    Capped =>
        \A i, j \in 1..Len(sresult.entries) :
            i < j =>
              LET a == sresult.entries[i]
                  b == sresult.entries[j]
                  sorted_order == Pos(scan.mft_entries, a) < Pos(scan.mft_entries, b)
              IN  /\ a \in Range(scan.mft_entries) /\ b \in Range(scan.mft_entries)
                  /\ ~(~a.is_deleted /\ b.is_deleted)
                  /\ (~a.is_deleted /\ ~b.is_deleted) => sorted_order
                  /\ (a.is_deleted /\ b.is_deleted) =>
                        IF Len(Deleted(scan.mft_entries)) > MaxDeleted
                        THEN \/ a.recovery_chance > b.recovery_chance
                             \/ a.recovery_chance = b.recovery_chance /\ sorted_order
                        ELSE sorted_order

\* a capped result in which a deleted entry was moved ahead of an active one
\* that the sort had put first
C12_Witness ==
    /\ Capped
    /\ \E i, j \in 1..Len(sresult.entries) :
        /\ i < j
        /\ sresult.entries[i].is_deleted
        /\ ~sresult.entries[j].is_deleted
        /\ Pos(scan.mft_entries, sresult.entries[j])
              < Pos(scan.mft_entries, sresult.entries[i])

\* unreadable records at the end of the records walked so far
RECURSIVE TrailingFailures(_, _)
TrailingFailures(m, n) ==
    IF n = 0 \/ m[n - 1] # "unreadable" THEN 0
    ELSE 1 + TrailingFailures(m, n - 1)

\* the entries of the parsable records among the first n
RECURSIVE ParsedUpTo(_, _)
ParsedUpTo(m, n) ==
    IF n = 0 THEN <<>>
    ELSE IF m[n - 1] \in {"deleted", "active"}
         THEN Append(ParsedUpTo(m, n - 1),
                     Entry(n - 1, m[n - 1] = "deleted", "MFT", ScanChance(n - 1)))
         ELSE ParsedUpTo(m, n - 1)

\* C13: in a walk of scan_mft that no cancel has ended, the failure count is
\* the number of failed reads since the last successful one, every parsed
\* entry is still held, and the walk is over before its record limit only
\* when the count has reached the threshold.
C13_FailuresAreLocal ==
    (scanner = "engine" /\ spc \in {"loop", "finish"} /\ ~scan.exited_on_cancel) =>
        /\ scan.consecutive_failures = TrailingFailures(mft, scan.record_num)
        /\ scan.parsed_entries = ParsedUpTo(mft, scan.record_num)
        /\ (spc = "finish" /\ scan.record_num < scan.limit) =>
               scan.consecutive_failures >= MaxConsecutiveFailures

\* a walk that went on after a failed read, kept the entry parsed before it and
\* counted from zero again
C13_Witness ==
    /\ scanner = "engine"
    /\ spc = "finish"
    /\ ~cancelled
    /\ scan.record_num = scan.limit
    /\ mft[0] = "deleted" /\ mft[1] = "unreadable" /\ mft[2] = "active"
    /\ scan.limit = 3
    /\ Len(scan.parsed_entries) = 2
    /\ scan.consecutive_failures = 0

(***************************************************************************)
(* Properties of the extent map                                            *)
(***************************************************************************)
\* bytes of $MFT that precede extent k, and the bytes the map covers
BytesBefore(extents, k) ==
    SumCounts(SubSeq(extents, 1, k - 1)) * reader.cluster_size
TotalBytesCovered(extents) == SumCounts(extents) * reader.cluster_size

\* extent k holds the first byte of record n
ExtentHolds(extents, k, n) ==
    /\ BytesBefore(extents, k) <= n * reader.mft_record_size
    /\ n * reader.mft_record_size < BytesBefore(extents, k + 1)

\* the byte of the volume at which extent k puts record n
OffsetIn(extents, k, n) ==
    extents[k].physical_cluster * reader.cluster_size
        + (n * reader.mft_record_size - BytesBefore(extents, k))

\* what the walk of read_mft_record_via_data_runs resolves record n to
Resolve(extents, n) ==
    PhysicalByte(extents, (n * reader.mft_record_size) \div reader.cluster_size,
                 (n * reader.mft_record_size) % reader.cluster_size, 0,
                 reader.cluster_size)

\* C14: with the extent map built from record 0, every record number N with
\* N * record_size below the bytes the map covers resolves to one physical
\* byte offset, the one of the single extent that holds it; inside one extent
\* the offset grows strictly with N; and a record read through the map is
\* read at that offset.
C14_ExtentMapCoverage ==
    LET extents == reader.mft_extents
    IN  /\ \A n \in 0..MaxRecordNumber :
            n * reader.mft_record_size < TotalBytesCovered(extents) =>
                /\ Cardinality({k \in 1..Len(extents) : ExtentHolds(extents, k, n)}) = 1
                /\ \A k \in 1..Len(extents) :
                       ExtentHolds(extents, k, n) =>
                           Resolve(extents, n) = OffsetIn(extents, k, n)
        /\ \A n, m \in 0..MaxRecordNumber, k \in 1..Len(extents) :
               (n < m /\ ExtentHolds(extents, k, n) /\ ExtentHolds(extents, k, m)) =>
                   Resolve(extents, n) < Resolve(extents, m)
        /\ (rpc = "done" /\ rtrace # <<>> /\ Last(rtrace) = Attempt(3, TRUE)) =>
               rresult.img.at = Resolve(extents, rreq)

\* a record of the second extent of a two-extent map, read through the map
C14_Witness ==
    /\ Len(reader.mft_extents) = 2
    /\ rpc = "done"
    /\ rtrace # <<>>
    /\ Last(rtrace) = Attempt(3, TRUE)
    /\ ExtentHolds(reader.mft_extents, 2, rreq)
    /\ rreq > 4

(***************************************************************************)
(* Properties of the parser                                                *)
(***************************************************************************)
RECURSIVE SumDeltas(_, _)
SumDeltas(pairs, i) == IF i = 0 THEN 0 ELSE pairs[i].delta + SumDeltas(pairs, i - 1)

\* C15: decoding the encoding of a list of (count, delta) pairs gives as many
\* runs, in the same order, each with the count of its pair, and each run of
\* a nonzero delta has the sum of the deltas up to its own as cluster offset.
C15_RunRoundTrip ==
    pop = "decoded" =>
        /\ Len(pout.runs) = Len(pin)
        /\ \A i \in 1..Len(pin) :
               /\ pout.runs[i].cluster_count = pin[i].count
               /\ pin[i].delta # 0 =>
                      pout.runs[i].cluster_offset = SumDeltas(pin, i)

\* two runs: a positive delta of two bytes whose top bit is clear, then a
\* negative delta
C15_Witness ==
    /\ pop = "decoded"
    /\ Len(pin) = 2
    /\ pin[1].delta = 128
    /\ pin[2].delta = -3
    /\ pout.runs[2].cluster_offset = 125

\* C16: parsing a record image never asks for a byte at or behind the end of
\* the buffer it reads from: neither the attribute walk nor the decoding of a
\* $DATA attribute ends in an index fault.
C16_ParseStaysInBuffer ==
    pop \in {"parsed", "named"} => pout.entry.outcome # "panic"

\* the offset behind the listed attributes
RECURSIVE AttrsEnd(_, _)
AttrsEnd(record, i) ==
    IF i = 0 THEN record.first_attr_offset
    ELSE AttrsEnd(record, i - 1) + record.attrs[i].attr_length

\* a well-formed record: every listed attribute lies in the buffer with its
\* fields inside it, and an end marker or zero bytes follow
Intact(record) ==
    /\ record.signature
    /\ record.first_attr_offset = 56
    /\ AttrsEnd(record, Len(record.attrs)) <= MFT_RECORD_SIZE - 8
    /\ \A i \in 1..Len(record.attrs) :
        LET attr == record.attrs[i]
        IN  /\ attr.attr_type \notin {0, ATTRIBUTE_END}
            /\ attr.attr_length >= 24
            /\ attr.attr_type = ATTRIBUTE_FILE_NAME => attr.non_resident = 0
            /\ attr.runs_offset <= attr.attr_length

FileNameAttrs(record) ==
    {i \in 1..Len(record.attrs) : record.attrs[i].attr_type = ATTRIBUTE_FILE_NAME}

FileNamesIn(record, namespace) ==
    {record.attrs[i].file_name :
        i \in {j \in FileNameAttrs(record) : record.attrs[j].name_type = namespace}}

\* C17: of a well-formed record with one Win32 and one DOS filename attribute
\* the parsed entry's name and the extracted name are the Win32 name, and of
\* one whose only filename attribute is a DOS one they are that DOS name.
C17_CanonicalName ==
    (pop = "named" /\ Intact(pin)) =>
        LET win32 == FileNamesIn(pin, WIN32)
            dos == FileNamesIn(pin, DOS)
            count == Cardinality(FileNameAttrs(pin))
        IN  /\ (count = 2 /\ win32 # {} /\ dos # {}) =>
                   /\ pout.entry.file_name \in win32
                   /\ pout.name.some /\ pout.name.name \in win32
            /\ (count = 1 /\ dos # {}) =>
                   /\ pout.entry.file_name \in dos
                   /\ pout.name.some /\ pout.name.name \in dos

NamedStream(attr) == attr.attr_type = ATTRIBUTE_DATA /\ attr.name_length # 0

\* the record without its named $DATA attributes, the others moved up
WithoutNamedStreams(record) ==
    [record EXCEPT !.attrs = SelectSeq(@, LAMBDA attr : ~NamedStream(attr))]

\* C18: the data runs and the file size of the entry parsed from a
\* well-formed record are those of the entry parsed from the same record
\* without its named $DATA streams.
C18_NamedStreamsIgnored ==
    (pop = "parsed" /\ Intact(pin)) =>
        LET plain == ParseMftRecord(WithoutNamedStreams(pin))
        IN  /\ pout.entry.data_runs = plain.data_runs
            /\ pout.entry.file_size = plain.file_size

(***************************************************************************)
(* Properties of path reconstruction                                       *)
(***************************************************************************)
\* C19: whatever the directory map and the starting parent are, a parent
\* walk of path reconstruction makes at most MaxDepth iterations (100 in the
\* source), and once it has made that many it can only end.
C19_WalkHalts ==
    pop \in {"walking", "built"} =>
        /\ pout.steps <= MaxDepth
        /\ pout.steps = MaxDepth => ~ENABLED BuildFullPathStep /\ ~ENABLED ResolvePathStep

\* a walk over a cycle of two directories that ended at the depth limit
C19_Witness ==
    /\ pop = "built"
    /\ pin.walker = "dir_map"
    /\ pin.dir_map[ROOT_RECORD + 2] = ROOT_RECORD + 3
    /\ pin.dir_map[ROOT_RECORD + 3] = ROOT_RECORD + 2
    /\ pin.parent_record = ROOT_RECORD + 2
    /\ pout.steps = MaxDepth
    /\ pout.current_parent # ROOT_RECORD

(***************************************************************************)
(* Properties of the carver                                                *)
(***************************************************************************)
AbsoluteOffset(c) == c.sector_offset * 512 + c.byte_offset

\* C20: no two candidates that carve_sector has pushed for a buffer have the
\* same absolute byte offset, whichever pass pushed them.
C20_DistinctOffsets ==
    pop \in {"mp4", "signatures", "carved"} =>
        \A a, b \in 1..Len(pout.carved) :
            a # b => AbsoluteOffset(pout.carved[a]) # AbsoluteOffset(pout.carved[b])

\* a buffer with an MP4 start and an acceptable signature at its first
\* position and two acceptable signatures at its second
C20_Witness ==
    /\ pop = "carved"
    /\ pin.sector_offset = 8
    /\ pin.data[1].mp4 = "valid"
    /\ pin.data[1].sigs = <<SignatureMatch("mov", 98, 1048576)>>
    /\ pin.data[2].mp4 = "none"
    /\ pin.data[2].sigs = <<SignatureMatch("docx", 90, 204800), SignatureMatch("zip", 90, 4096)>>
    /\ Len(pout.carved) = 2
    /\ pout.carved[1].extension = "mp4"
    /\ pout.carved[2].extension = "docx"

\* C21: of a buffer that begins with a JPEG, PNG or PDF header the returned
\* list is not empty and its first candidate has the extension of that
\* format.
C21_HeaderDetected ==
    (pop = "carved" /\ pin.data[1].sigs # <<>>
        /\ pin.data[1].sigs[1].extension \in {"jpg", "png", "pdf"}) =>
        /\ pout.carved # <<>>
        /\ pout.carved[1].extension = pin.data[1].sigs[1].extension

(***************************************************************************)
(* Properties of cluster reassembly                                        *)
(***************************************************************************)
\* the run that holds cluster lcn
RunOf(runs, lcn) ==
    CHOOSE i \in 1..Len(runs) :
        /\ runs[i].cluster_offset > 0
        /\ runs[i].cluster_offset <= lcn
        /\ lcn < runs[i].cluster_offset + runs[i].cluster_count

\* the file offset at which the bytes of cluster lcn belong: the length of
\* all earlier runs and of the earlier clusters of its own run
PlannedOffset(runs, lcn, cluster_size) ==
    LET i == RunOf(runs, lcn)
    IN  (SumCounts(SubSeq(runs, 1, i - 1)) + (lcn - runs[i].cluster_offset)) * cluster_size

\* C22: in a file written by cluster reassembly the bytes read from a
\* cluster lie at the file offset that the lengths of the earlier runs give,
\* the file has the length of the descriptor's size or of all runs, whichever
\* is less (sparse and failed runs are filled in and later runs processed),
\* and it is never longer than the descriptor's size.
C22_RunsInPlace ==
    dest.by = "cluster" =>
        /\ \A j \in 1..Len(dest.data) :
               dest.data[j].lcn > 0 =>
                   DataLen(SubSeq(dest.data, 1, j - 1))
                       = PlannedOffset(file.data_runs, dest.data[j].lcn, DEFAULT_CLUSTER_SIZE)
        /\ DataLen(dest.data)
               = Min(file.size, SumCounts(file.data_runs) * DEFAULT_CLUSTER_SIZE)
        /\ DataLen(dest.data) <= file.size

(***************************************************************************)
(* Properties of carving for a file                                        *)
(***************************************************************************)
\* C23: once the cancel flag is set the carving scan stops at its next check
\* point: at most the chunk that is being read when the flag is set is begun
\* after it.
C23_CancelStopsCarving ==
    pop \in {"scanning", "scanned", "done"} => pout.after_cancel <= 1

\* the examined candidate of the highest score, the earliest of them
BestExamined(examined) ==
    LET i == CHOOSE i \in 1..Len(examined) :
                 /\ \A j \in 1..Len(examined) : examined[j].score <= examined[i].score
                 /\ \A j \in 1..(i - 1) : examined[j].score < examined[i].score
    IN  examined[i].id

\* C24: when the scan has examined a candidate that passed the size and
\* structure checks and the destination could be written, the file written
\* is the examined candidate of the highest keyword score, the earliest one
\* of that score; and no candidate is examined after one that matched all
\* keywords.
C24_BestCandidateWritten ==
    /\ (pop = "done" /\ pout.examined # <<>> /\ (pout.success \/ pout.best_match = NoMatchYet)) =>
           pout.written = BestExamined(pout.examined)
    /\ (pop \in {"scanning", "scanned", "done"} /\ pin.keywords > 0) =>
           \A i \in 1..(Len(pout.examined) - 1) : pout.examined[i].score # pin.keywords

(***************************************************************************)
(* Properties of the conversion into recoverable files                     *)
(***************************************************************************)
\* C25: a USN deletion whose record, read again, parses to an entry of
\* another name is emitted with size 0 and a recovery chance from 3 to 8,
\* whether that entry is marked deleted or not.
C25_ReusedRecordEntry ==
    ( /\ pop = "emitted"
      /\ "usn" \in DOMAIN pin
      /\ pin.usn.reread.kind = "parsed"
      /\ pin.usn.reread.file_name # pin.usn.file_name
      /\ pout.source = "USN" ) =>
        /\ pout.size = 0
        /\ pout.recovery_chance \in 3..8

\* C26: a parsed entry of size zero that is marked deleted, has data runs
\* and passes the rules on the name, the directory flag, the extension and
\* the temporary paths is emitted as a recoverable file.
C26_EmptyDeletedWithRunsEmitted ==
    ( /\ pop = "emitted"
      /\ "entry" \in DOMAIN pin
      /\ pin.entry.file_size = 0
      /\ pin.entry.is_deleted
      /\ pin.entry.data_runs # <<>>
      /\ pin.entry.file_name # ""
      /\ ~pin.entry.is_directory
      /\ ~StartsWithDollar(pin.entry.file_name)
      /\ ~FilteredExtension(Extension(pin.entry.file_name))
      /\ ~IsTempFile(pin.entry.file_name,
                     BuildFullPath(pin.entry.parent_record, pin.entry.file_name, pin.dir_map)) ) =>
        pout.source = "mft_filesystem"

\* the directories from the parent of an entry up to the root, as the map
\* gives them
RECURSIVE ParentChain(_, _, _)
ParentChain(dir_map, current_parent, depth) ==
    IF current_parent # ROOT_RECORD /\ depth < MaxDepth /\ current_parent \in DOMAIN dir_map
    THEN {current_parent} \cup ParentChain(dir_map, dir_map[current_parent].parent, depth + 1)
    ELSE {}

\* C27: an entry in use that no other rule filters out and whose chain of
\* parent directories passes through $Recycle.Bin is emitted, as deleted and
\* with recovery chance 95.
C27_RecycleBinReportedDeleted ==
    ( /\ pop = "emitted"
      /\ "entry" \in DOMAIN pin
      /\ ~pin.entry.is_deleted
      /\ pin.entry.file_size > 0
      /\ pin.entry.file_name # ""
      /\ ~pin.entry.is_directory
      /\ ~StartsWithDollar(pin.entry.file_name)
      /\ ~FilteredExtension(Extension(pin.entry.file_name))
      /\ ~IsTempFile(pin.entry.file_name,
                     BuildFullPath(pin.entry.parent_record, pin.entry.file_name, pin.dir_map))
      /\ \E n \in ParentChain(pin.dir_map, pin.entry.parent_record, 0) :
            pin.dir_map[n].name = "$Recycle.Bin" ) =>
        /\ pout.source = "mft_filesystem"
        /\ pout.is_deleted
        /\ pout.recovery_chance = 95

(***************************************************************************)
(* Properties of the USN read loop                                         *)
(***************************************************************************)
\* C28: whatever the responses of the journal read are, the read loop of
\* scan_usn_journal ends; it goes on only after a response that was read,
\* whose next cursor is greater than the start cursor, and while the number
\* of records is within the cap; and the start cursor of every iteration is
\* greater than that of the iteration before.
C28_UsnLoopTerminates ==
    /\ [](pop \in {"reading", "done"} /\ "prev_usn" \in DOMAIN pout =>
            /\ pout.iterations > 0 /\ pout.last \in {"more", "cap"} =>
                    pout.start_usn > pout.prev_usn
            /\ pop = "reading" =>
                    /\ pout.last \in {"none", "more"}
                    /\ pout.total_records_read <= UsnRecordCap
            /\ pout.last \in {"failed", "short", "stale", "cap"} => pop = "done"
            /\ pout.last = "cap" => pout.total_records_read > UsnRecordCap)
    /\ <>(pop = "done")

\* a loop that made two iterations with growing cursors and ended over the
\* cap
C28_Witness ==
    /\ pop = "done"
    /\ "prev_usn" \in DOMAIN pout
    /\ pout.last = "cap"
    /\ pout.iterations >= 2
    /\ pout.start_usn > pout.prev_usn
    /\ pout.prev_usn > pin.first_usn

(***************************************************************************)
(* Properties of the cancel flag across scans                              *)
(***************************************************************************)
\* C29: a scan started on an engine after an earlier scan of the engine was
\* cancelled, and during which cancel() is not called again, leaves its
\* record loop by its record limit or its failure threshold, not by the
\* cancel flag.
C29_CancelEndsWithItsScan ==
    (spc \in {"finish", "done"} /\ scan.after_cancelled_scan) =>
        ~scan.exited_on_cancel

(***************************************************************************)
(* Properties of the extent map of the reader                              *)
(***************************************************************************)
\* C30: after any calls of read_mft_record, when the flag that says the
\* extent map is built is set, record 0 parsed and the extent list holds the
\* extents of its unnamed $DATA; so an attempt to build the map that failed
\* has left the flag clear.
C30_BuiltFlagMeansExtents ==
    reader.mft_extents_built =>
        /\ disk.record0 = "ok"
        /\ reader.mft_extents = ExtentsOf(disk.runs)

====
